---- MODULE Spec2Model ----
(***************************************************************************)
(* Model of the MoneyPrinterTurbo pipeline orchestrator                    *)
(* (services/task.py), of its task state store (services/state.py) and of  *)
(* the timeline and text-wrapping functions of the media engine            *)
(* (services/video.py).                                                    *)
(*                                                                         *)
(* Python values are tagged records [k |-> kind, v |-> payload]; a Python  *)
(* str is a sequence of tokens.  In the strs that reach the task store a   *)
(* token is one character: a digit, one of the letters a b c s, one of     *)
(* - + ' " [ ] , and the blank, or the fullwidth comma "U+FF0C"; or it is  *)
(* a word that stands for its characters: None, True, False, or a piece of *)
(* a path (a task id, "/", a stem such as "final-", an extension such as   *)
(* ".mp4", a file name such as "audio.mp3").  The texts of the store are   *)
(* str() of such values: they are over the same tokens, and hold a         *)
(* backslash only where repr() wrote one, before an apostrophe inside a    *)
(* quoted string.  These strs hold no backslash, no line feed, no dot      *)
(* outside a path and no other letter, so the other escapes, the float,    *)
(* complex, hexadecimal and octal literals and the other string prefixes   *)
(* of Python are outside the model.                                        *)
(***************************************************************************)
EXTENDS Integers, Sequences, FiniteSets, TLC

\* ------------------------------------------------------------------ bounds
\* largest params.video_count a run is started with
MaxVideoCount == 3
\* largest progress value handed to update_task by a direct store caller
MaxProgressArg == 150

\* number of store calls direct callers make in the store specification
MaxApiCalls == 2

\* task ids
Tasks == {"t1", "t2"}

\* --------------------------------------------------------------- constants
\* app.models.const (integer-coded task states)
TASK_STATE_FAILED == -1
TASK_STATE_COMPLETE == 1
TASK_STATE_PROCESSING == 4

\* ------------------------------------------------------------ Python values
IntV(n) == [k |-> "int", v |-> n]
StrV(s) == [k |-> "str", v |-> s]
ListV(l) == [k |-> "list", v |-> l]
NoneV == [k |-> "none", v |-> 0]
BoolV(b) == [k |-> "bool", v |-> b]
TupleV(l) == [k |-> "tuple", v |-> l]

\* (mutation) the tests `if not x` written as `if x is None`
Truthy_NotNone(x) == x.k # "none"

\* Python truthiness of a value (`not x` is ~Truthy(x))
Truthy(x) ==
    CASE x.k = "int" -> x.v # 0
      [] x.k = "str" -> x.v # <<>>
      [] x.k = "list" -> x.v # <<>>
      [] x.k = "tuple" -> x.v # <<>>
      [] x.k = "bytes" -> x.v # <<>>
      [] x.k = "bool" -> x.v
      [] x.k = "none" -> FALSE

\* str.strip(): drop leading and trailing blanks
RECURSIVE LStrip(_)
LStrip(s) == IF s # <<>> /\ Head(s) = " " THEN LStrip(Tail(s)) ELSE s

RECURSIVE RStrip(_)
RStrip(s) ==
    IF s # <<>> /\ s[Len(s)] = " " THEN RStrip(SubSeq(s, 1, Len(s) - 1)) ELSE s

Strip(s) == RStrip(LStrip(s))

\* the fullwidth comma U+FF0C, as one token
FullwidthComma == "U+FF0C"

\* (mutation) the pattern holds the ASCII comma only
RECURSIVE SplitFrom_AsciiOnly(_, _, _)
SplitFrom_AsciiOnly(s, n, cur) ==
    IF n > Len(s) THEN <<cur>>
    ELSE IF s[n] = "," THEN <<cur>> \o SplitFrom_AsciiOnly(s, n + 1, <<>>)
    ELSE SplitFrom_AsciiOnly(s, n + 1, Append(cur, s[n]))

\* re.split over the class of ASCII comma and fullwidth comma
RECURSIVE SplitFrom(_, _, _)
SplitFrom(s, n, cur) ==
    IF n > Len(s) THEN <<cur>>
    ELSE IF s[n] \in {",", FullwidthComma} THEN <<cur>> \o SplitFrom(s, n + 1, <<>>)
    ELSE SplitFrom(s, n + 1, Append(cur, s[n]))

SplitCommas(s) == SplitFrom(s, 1, <<>>)

\* ---------------------------------------------------- str() of stored values
Digits == <<"0", "1", "2", "3", "4", "5", "6", "7", "8", "9">>

RECURSIVE NatText(_)
NatText(n) == IF n < 10 THEN <<Digits[n + 1]>>
              ELSE NatText(n \div 10) \o <<Digits[(n % 10) + 1]>>

IntText(n) == IF n < 0 THEN <<"-">> \o NatText(0 - n) ELSE NatText(n)

\* repr() of a str, as str(list) writes an element: in double quotes when
\* the str holds an apostrophe and no double quote, else in apostrophes;
\* a backslash goes before the enclosing quote and before a backslash
StrRepr(s) ==
    LET quote == IF (\E n \in DOMAIN s : s[n] = "'")
                    /\ ~(\E n \in DOMAIN s : s[n] = "\"")
                 THEN "\"" ELSE "'"
        Esc(c) == IF c = "\\" \/ c = quote THEN <<"\\", c>> ELSE <<c>>
        RECURSIVE Body(_)
        Body(n) == IF n > Len(s) THEN <<>> ELSE Esc(s[n]) \o Body(n + 1)
    IN  <<quote>> \o Body(1) \o <<quote>>

RECURSIVE PyStr(_)
RECURSIVE JoinReprs(_, _)
JoinReprs(l, n) ==
    IF n > Len(l) THEN <<>>
    ELSE (IF l[n].k = "str" THEN StrRepr(l[n].v) ELSE PyStr(l[n]))
         \o (IF n < Len(l) THEN <<",", " ">> ELSE <<>>)
         \o JoinReprs(l, n + 1)

PyStr(x) ==
    CASE x.k = "int" -> IntText(x.v)
      [] x.k = "str" -> x.v
      [] x.k = "list" -> <<"[">> \o JoinReprs(x.v, 1) \o <<"]">>
      [] x.k = "bool" -> IF x.v THEN <<"True">> ELSE <<"False">>
      [] x.k = "none" -> <<"None">>

\* ------------------------------------------- ast.literal_eval on stored text
\* The texts are over the tokens of a str.  Outside a quoted string a letter
\* counts only as the prefix b of a bytes literal or in the binary literal
\* 0b...; a piece of a path or the fullwidth comma there makes the text no
\* literal.  A bytes value is [k |-> "bytes", v |-> its characters].
IsDigitTok(c) == \E d \in 1..10 : Digits[d] = c

DigitVal(c) == (CHOOSE d \in 1..10 : Digits[d] = c) - 1

\* str.isdigit(): non-empty and every character a digit
IsDigit(s) == s # <<>> /\ \A n \in 1..Len(s) : IsDigitTok(s[n])

RECURSIVE DigitsValue(_)
DigitsValue(s) ==
    IF s = <<>> THEN 0
    ELSE 10 * DigitsValue(SubSeq(s, 1, Len(s) - 1)) + DigitVal(s[Len(s)])

ParseFail == [ok |-> FALSE, v |-> NoneV, rest |-> <<>>]

\* length of the leading run of digits of s
RECURSIVE DigitRun(_)
DigitRun(s) == IF s # <<>> /\ IsDigitTok(Head(s)) THEN 1 + DigitRun(Tail(s)) ELSE 0

\* an unsigned integer literal: decimal (all zeros, or no leading zero)
\* or binary (0b and binary digits)
ParseNat(s) ==
    IF Len(s) >= 3 /\ s[1] = "0" /\ s[2] = "b" /\ s[3] \in {"0", "1"}
    THEN LET n == CHOOSE q \in 3..Len(s) :
                      /\ \A r \in 3..q : s[r] \in {"0", "1"}
                      /\ q < Len(s) => s[q + 1] \notin {"0", "1"}
             RECURSIVE BinValue(_)
             BinValue(q) == IF q < 3 THEN 0
                            ELSE 2 * BinValue(q - 1) + DigitVal(s[q])
         IN  [ok |-> TRUE, v |-> IntV(BinValue(n)),
              rest |-> SubSeq(s, n + 1, Len(s))]
    ELSE LET n == DigitRun(s)
             d == SubSeq(s, 1, n)
         IN  IF n = 0 THEN ParseFail
             ELSE IF d[1] = "0" /\ \E j \in 1..n : d[j] # "0" THEN ParseFail
             ELSE [ok |-> TRUE, v |-> IntV(DigitsValue(d)),
                   rest |-> SubSeq(s, n + 1, Len(s))]

\* a string or bytes literal at the head of s, with the implicit
\* concatenation of adjacent literals of the same kind.  The literal is an
\* optional prefix b and a quoted part in apostrophes or in double quotes.
\* Three quotes at the head open a triple-quoted part, which only the same
\* three quotes in a row close; otherwise the next such quote closes it.
\* A backslash takes the next character with it: a backslash or a quote
\* then stands for itself, and any other character stays behind its
\* backslash.  A bytes literal holds ASCII characters only.
RECURSIVE ParseString(_)
ParseString(s) ==
    LET Quotes == {"'", "\""}
        Starts(x) == \/ Len(x) >= 1 /\ x[1] \in Quotes
                     \/ Len(x) >= 2 /\ x[1] = "b" /\ x[2] \in Quotes
        bytes == s[1] = "b"
        t == IF bytes THEN Tail(s) ELSE s
        quote == t[1]
        triple == Len(t) >= 3 /\ t[2] = quote /\ t[3] = quote
        width == IF triple THEN 3 ELSE 1
        Closes(q) == /\ q + width - 1 <= Len(t)
                     /\ \A r \in q..(q + width - 1) : t[r] = quote
        Escape(c) == IF c \in {"\\", "'", "\""} THEN <<c>> ELSE <<"\\", c>>
        \* the characters from position q to the closing quotes, and the
        \* position behind them (0: the literal is not closed)
        RECURSIVE Scan(_, _)
        Scan(q, acc) ==
            IF q > Len(t) THEN [body |-> acc, next |-> 0]
            ELSE IF t[q] = "\\"
                 THEN IF q = Len(t) THEN [body |-> acc, next |-> 0]
                      ELSE Scan(q + 2, acc \o Escape(t[q + 1]))
            ELSE IF Closes(q) THEN [body |-> acc, next |-> q + width]
            ELSE Scan(q + 1, Append(acc, t[q]))
    IN  IF ~Starts(s) THEN ParseFail
        ELSE LET r == Scan(width + 1, <<>>)
                 after == SubSeq(t, r.next, Len(t))
                 rest == LStrip(after)
                 val == [k |-> IF bytes THEN "bytes" ELSE "str", v |-> r.body]
             IN  IF r.next = 0 THEN ParseFail
                 ELSE IF bytes /\ \E n \in DOMAIN r.body :
                                      r.body[n] = FullwidthComma
                 THEN ParseFail
                 ELSE IF Starts(rest)
                 THEN LET more == ParseString(rest)
                      IN  IF more.ok /\ more.v.k = val.k
                          THEN [ok |-> TRUE,
                                v |-> [val EXCEPT !.v = r.body \o more.v.v],
                                rest |-> more.rest]
                          ELSE ParseFail
                 ELSE [ok |-> TRUE, v |-> val, rest |-> after]

RECURSIVE ParseExpr(_)
RECURSIVE ParseItems(_, _)

\* one literal at the head of s (s does not start with a blank)
ParseExpr(s) ==
    IF s = <<>> THEN ParseFail
    ELSE CASE Head(s) \in {"'", "\"", "b"} -> ParseString(s)
           [] Head(s) = "[" -> ParseItems(LStrip(Tail(s)), <<>>)
           [] Head(s) = "None" -> [ok |-> TRUE, v |-> NoneV, rest |-> Tail(s)]
           [] Head(s) = "True" ->
                [ok |-> TRUE, v |-> BoolV(TRUE), rest |-> Tail(s)]
           [] Head(s) = "False" ->
                [ok |-> TRUE, v |-> BoolV(FALSE), rest |-> Tail(s)]
           [] Head(s) \in {"-", "+"} ->
                LET r == ParseNat(LStrip(Tail(s)))
                IN  IF ~r.ok THEN ParseFail
                    ELSE IF Head(s) = "-"
                         THEN [r EXCEPT !.v = IntV(0 - r.v.v)]
                         ELSE r
           [] IsDigitTok(Head(s)) -> ParseNat(s)
           [] OTHER -> ParseFail

\* the elements of a list display, after "[" or after a comma
ParseItems(s, acc) ==
    IF s = <<>> THEN ParseFail
    ELSE IF Head(s) = "]"
         THEN [ok |-> TRUE, v |-> ListV(acc), rest |-> Tail(s)]
    ELSE LET r == ParseExpr(s)
             rest == LStrip(r.rest)
         IN  IF ~r.ok \/ rest = <<>> THEN ParseFail
             ELSE IF Head(rest) = ","
                  THEN ParseItems(LStrip(Tail(rest)), Append(acc, r.v))
             ELSE IF Head(rest) = "]"
                  THEN [ok |-> TRUE, v |-> ListV(Append(acc, r.v)),
                        rest |-> Tail(rest)]
             ELSE ParseFail

\* the elements of an unparenthesised tuple, after a comma
RECURSIVE ParseTuple(_, _)
ParseTuple(s, acc) ==
    IF s = <<>> THEN [ok |-> TRUE, v |-> TupleV(acc), rest |-> <<>>]
    ELSE LET r == ParseExpr(s)
             rest == LStrip(r.rest)
         IN  IF ~r.ok THEN ParseFail
             ELSE IF rest = <<>>
                  THEN [ok |-> TRUE, v |-> TupleV(Append(acc, r.v)),
                        rest |-> <<>>]
             ELSE IF Head(rest) = ","
                  THEN ParseTuple(LStrip(Tail(rest)), Append(acc, r.v))
             ELSE ParseFail

\* ast.literal_eval(text): ok = FALSE stands for ValueError / SyntaxError
LiteralEval(text) ==
    LET r == ParseExpr(LStrip(text))
        rest == LStrip(r.rest)
    IN  IF ~r.ok THEN ParseFail
        ELSE IF rest = <<>> THEN r
        ELSE IF Head(rest) = ","
             THEN ParseTuple(LStrip(Tail(rest)), <<r.v>>)
        ELSE ParseFail

\* RedisState._convert_to_original_type
_convert_to_original_type(value_str) ==
    LET r == LiteralEval(value_str)
    IN  IF r.ok THEN r.v
        ELSE IF IsDigit(value_str) THEN IntV(DigitsValue(value_str))
        ELSE StrV(value_str)

\* ------------------------------------------------- binary64 arithmetic
\* A double in [2, 128) is held exactly as i + hi/2^26 + lo/2^52.
Limb == 67108864

\* floor(log2 n) for 1 <= n < 128
Exp2(n) == IF n >= 64 THEN 6 ELSE IF n >= 32 THEN 5 ELSE IF n >= 16 THEN 4
           ELSE IF n >= 8 THEN 3 ELSE IF n >= 4 THEN 2 ELSE IF n >= 2 THEN 1
           ELSE 0

Pow2(e) == CASE e = 0 -> 1 [] e = 1 -> 2 [] e = 2 -> 4 [] e = 3 -> 8
             [] e = 4 -> 16 [] e = 5 -> 32 [] OTHER -> 64

\* propagate carries out of the two fraction limbs
FNorm(i, hi, lo) ==
    LET hi2 == hi + (lo \div Limb)
    IN  [i |-> i + (hi2 \div Limb), hi |-> hi2 % Limb, lo |-> lo % Limb]

\* round to 53 significant bits, ties to even; sticky: bits below 2^-52 exist
FRound(x, sticky) ==
    LET m == Pow2(Exp2(x.i))
        low == x.lo % m
        base == x.lo - low
        odd == IF m = 1 THEN FALSE ELSE ((base \div m) % 2) = 1
        up == IF m = 1 THEN FALSE
              ELSE \/ 2 * low > m
                   \/ 2 * low = m /\ sticky
                   \/ 2 * low = m /\ ~sticky /\ odd
    IN  FNorm(x.i, x.hi, base + (IF up THEN m ELSE 0))

FFromInt(n) == [i |-> n, hi |-> 0, lo |-> 0]

\* n / c for small positive integers (2 <= n/c), correctly rounded
FDivInt(n, c) ==
    LET r0 == n % c
        r1 == (r0 * Limb) % c
        r2 == (r1 * Limb) % c
    IN  FRound([i |-> n \div c, hi |-> (r0 * Limb) \div c,
                lo |-> (r1 * Limb) \div c], r2 # 0)

\* x / 2 (exact: the lowest kept bit of x is at least 2^-51)
FHalf(x) ==
    [i |-> x.i \div 2,
     hi |-> (x.hi \div 2) + (x.i % 2) * (Limb \div 2),
     lo |-> (x.lo \div 2) + (x.hi % 2) * (Limb \div 2)]

FAdd(x, y) == FRound(FNorm(x.i + y.i, x.hi + y.hi, x.lo + y.lo), FALSE)

\* int(x) for a positive double
FInt(x) == x.i

\* ------------------------------------------------------------------- state
VARIABLES
    enable_redis,       \* config: which backend sm.state is
    subtitle_provider,  \* config.app["subtitle_provider"], stripped and lowered
    _tasks,             \* MemoryState._tasks: id -> record (fields -> values)
    _redis,             \* the redis hashes: id -> (field -> text)
    pending,            \* RedisState.update_task: the hset calls still to make
    pc,                 \* position of each run of start
    params,             \* the VideoParams each run was started with
    stop_at,            \* the stop_at each run was started with
    loc,                \* the local variables of start / generate_final_videos
    calls,              \* history: the delegates each run invoked, in order
    writes,             \* history: the store calls made for each id, in order
    result,             \* what start returned
    files,              \* the files present in each task directory
    media               \* the call of a video.py function under way: its
                        \* arguments, locals and position

vars == <<enable_redis, subtitle_provider, _tasks, _redis, pending, pc, params,
          stop_at, loc, calls, writes, result, files, media>>

\* ------------------------------------------------------------- the store
EmptyRec == [f \in {} |-> NoneV]

\* the dict / hash built from an ordered list of (field, value) pairs
FieldNames(fl) == {fl[n][1] : n \in DOMAIN fl}

RecOf(fl) ==
    [f \in FieldNames(fl) |->
        LET n == CHOOSE q \in DOMAIN fl :
                     fl[q][1] = f /\ \A r \in DOMAIN fl : fl[r][1] = f => r <= q
        IN  fl[n][2]]

\* (mutation) the test `if progress > 100` is left out
ClampProgress_NoClamp(progress) == FInt(progress)

\* progress = int(progress); if progress > 100: progress = 100
ClampProgress(progress) ==
    LET p == FInt(progress) IN IF p > 100 THEN 100 ELSE p

\* (mutation) every hash is kept under the one key "t1"
hset_OneKey(redis, key, field, value) ==
    [redis EXCEPT !["t1"] =
        [f \in DOMAIN @ \cup {field} |-> IF f = field THEN value ELSE @[f]]]

\* (mutation) the keyword fields are left out of the record
FieldList_NoKwargs(state, progress, kwargs) ==
    <<<<"state", IntV(state)>>, <<"progress", IntV(ClampProgress(progress))>>>>

\* {"state": state, "progress": progress, **kwargs}, in insertion order
FieldList(state, progress, kwargs) ==
    <<<<"state", IntV(state)>>,
      <<"progress", IntV(ClampProgress(progress))>>>> \o kwargs

\* MemoryState.update_task: self._tasks[task_id] = {...}
MemoryState_update_task(tasks, task_id, state, progress, kwargs) ==
    [tasks EXCEPT ![task_id] = RecOf(FieldList(state, progress, kwargs))]

\* MemoryState.delete_task
MemoryState_delete_task(tasks, task_id) ==
    [tasks EXCEPT ![task_id] = EmptyRec]

\* MemoryState.get_task: the record, EmptyRec standing for None
MemoryState_get_task(tasks, task_id) == tasks[task_id]

\* RedisState.update_task: the (field, str(value)) pairs it will hset
RedisState_update_task(state, progress, kwargs) ==
    LET fl == FieldList(state, progress, kwargs)
    IN  [n \in DOMAIN fl |-> <<fl[n][1], PyStr(fl[n][2])>>]

\* redis HSET key field value
hset(redis, key, field, value) ==
    [redis EXCEPT ![key] =
        [f \in DOMAIN @ \cup {field} |-> IF f = field THEN value ELSE @[f]]]

\* RedisState.delete_task: redis DEL key
RedisState_delete_task(redis, task_id) ==
    [redis EXCEPT ![task_id] = EmptyRec]

\* RedisState.get_task: hgetall and decode, EmptyRec standing for None
RedisState_get_task(redis, task_id) ==
    [f \in DOMAIN redis[task_id] |->
        _convert_to_original_type(redis[task_id][f])]

\* sm.state.get_task of the configured backend, on given store contents
get_task_in(redis, tasks, task_id) ==
    IF enable_redis THEN RedisState_get_task(redis, task_id)
    ELSE MemoryState_get_task(tasks, task_id)

\* sm.state.get_task(task_id) now
get_task(task_id) == get_task_in(_redis, _tasks, task_id)

HasTask(task_id) == DOMAIN get_task(task_id) # {}

\* sm.state.update_task(task_id, state, progress, **kwargs) as called by t
update_task(t, state, progress, kwargs) ==
    /\ writes' = [writes EXCEPT ![t] =
           Append(@, [op |-> "update", state |-> state,
                      progress |-> ClampProgress(progress),
                      fields |-> FieldNames(kwargs),
                      arg |-> progress, kwargs |-> kwargs])]
    /\ IF enable_redis
       THEN /\ pending' = [pending EXCEPT ![t] =
                   RedisState_update_task(state, progress, kwargs)]
            /\ UNCHANGED <<_tasks, _redis>>
       ELSE /\ _tasks' = MemoryState_update_task(_tasks, t, state, progress,
                                                 kwargs)
            /\ UNCHANGED <<_redis, pending>>

\* one hset of the loop in RedisState.update_task
RedisHSet(t) ==
    /\ pending[t] # <<>>
    /\ _redis' = hset(_redis, t, Head(pending[t])[1], Head(pending[t])[2])
    /\ pending' = [pending EXCEPT ![t] = Tail(@)]
    /\ UNCHANGED <<enable_redis, subtitle_provider, _tasks, pc, params,
                   stop_at, loc, calls, writes, result, files, media>>

\* ------------------------------------------------------ inputs of a run
StopAts == {"script", "terms", "audio", "subtitle", "materials", "video"}

\* params.video_script: absent, or a text that strip() has to trim
ScriptInputs == {<<>>, <<" ", "s">>}

\* params.video_terms when the source is remote
TermsInputs ==
    { NoneV,
      StrV(<<"a", ",", " ", "b", FullwidthComma, "c">>),
      StrV(<<" ">>),
      ListV(<<StrV(<<" ", "a">>), StrV(<<"b">>)>>),
      ListV(<<IntV(7)>>),
      IntV(7) }

\* a MaterialInfo with what opening its file measures
Material(url, ext, w, h) == [url |-> url, ext |-> ext, w |-> w, h |-> h]

SmallImage == Material(<<"m1.jpg">>, "jpg", 200, 200)
BigImage == Material(<<"m2.png">>, "png", 1080, 1920)
BigVideo == Material(<<"m3.mp4">>, "mp4", 1080, 1920)

\* params.video_materials when the source is local
MaterialInputs == {<<>>, <<SmallImage>>, <<SmallImage, BigVideo>>, <<BigImage>>}

\* params.video_clip_duration
ClipDurations == {3}

ParamsSet ==
    { [video_script |-> vs, video_terms |-> vt, video_source |-> src,
       video_materials |-> vm, subtitle_enabled |-> se, video_count |-> vc,
       video_concat_mode |-> cm, video_clip_duration |-> cd] :
        vs \in ScriptInputs, vt \in TermsInputs,
        src \in {"local", "pexels"}, vm \in MaterialInputs,
        se \in BOOLEAN, vc \in 0..MaxVideoCount,
        cm \in {"sequential", "random"}, cd \in ClipDurations }

\* inputs the run does not read are fixed: terms for a local source,
\* materials for a remote one
RelevantParams ==
    { p \in ParamsSet :
        IF p.video_source = "local" THEN p.video_terms = NoneV
        ELSE p.video_materials = <<>> }

\* ------------------------------------------------- outcomes of delegates
\* llm.generate_script: empty, or a script
LlmScripts == {<<>>, <<"s">>}

\* llm.generate_terms: empty, or a list of terms
LlmTerms == {ListV(<<>>), ListV(<<StrV(<<"a">>), StrV(<<"b">>)>>)}

\* voice.get_audio_duration(sub_maker), in tenths of a second
AudioTenths == {15, 30}

\* material.download_videos: nothing, or the downloaded paths
Downloads == {ListV(<<>>), ListV(<<StrV(<<"v1.mp4">>)>>)}

\* app.models.const.FILE_TYPE_IMAGES
FILE_TYPE_IMAGES == {"jpg", "jpeg", "png", "bmp"}

\* path.join(utils.task_dir(task_id), name)
TaskPath(t, name) == <<t, "/">> \o name

\* (mutation) the outputs are numbered from 0
IndexedName_FromZero(stem, index) ==
    <<stem>> \o NatText(index - 1) \o <<".mp4">>

\* f"combined-{index}.mp4" / f"final-{index}.mp4"
IndexedName(stem, index) == <<stem>> \o NatText(index) \o <<".mp4">>

\* (mutation) the duration is rounded down
CeilTenths_Floor(d) == d \div 10

\* math.ceil of a duration given in tenths
CeilTenths(d) == (d + 9) \div 10

\* --------------------------------------------------------- pure helpers
\* generate_terms, lines 90-95: the caller's terms as a list
\* (kind "raise" stands for the exception the code lets escape)
RECURSIVE StripAll(_)
StripAll(l) ==
    IF l = <<>> THEN <<>>
    ELSE <<StrV(Strip(Head(l).v))>> \o StripAll(Tail(l))

ParseTerms(video_terms) ==
    CASE video_terms.k = "str" ->
            ListV([n \in DOMAIN SplitCommas(video_terms.v) |->
                      StrV(Strip(SplitCommas(video_terms.v)[n]))])
      [] video_terms.k = "list" ->
            IF \A n \in DOMAIN video_terms.v : video_terms.v[n].k = "str"
            THEN ListV(StripAll(video_terms.v))
            ELSE [k |-> "raise", v |-> "AttributeError"]
      [] OTHER -> [k |-> "raise", v |-> "ValueError"]

\* video.preprocess_video: returns the list it was given, with the url of
\* every image at or above the 480x480 floor rewritten to the zoom clip
preprocess_video(materials) ==
    [n \in DOMAIN materials |->
        LET m == materials[n]
        IN  IF m.url = <<>> THEN m
            ELSE IF m.w < 480 \/ m.h < 480 THEN m
            ELSE IF m.ext \in FILE_TYPE_IMAGES
                 THEN [m EXCEPT !.url = m.url \o <<".mp4">>]
            ELSE m]

\* [material_info.url for material_info in materials]
MaterialUrls(materials) == ListV([n \in DOMAIN materials |-> StrV(materials[n].url)])

\* (mutation) the caller's mode is passed on whatever the count
FinalConcatMode_Keep(p) == p.video_concat_mode

\* generate_final_videos, lines 316-318
FinalConcatMode(p) ==
    IF p.video_count = 1 THEN p.video_concat_mode ELSE "random"

\* _progress += 50 / params.video_count / 2
HalfStep(progress, video_count) ==
    FAdd(progress, FHalf(FDivInt(50, video_count)))

\* ------------------------------------------------------------ run state
NoParams == [video_script |-> <<>>, video_terms |-> NoneV,
             video_source |-> "local", video_materials |-> <<>>,
             subtitle_enabled |-> FALSE, video_count |-> 0,
             video_concat_mode |-> "random", video_clip_duration |-> 0]

InitLocals ==
    [video_script |-> <<>>, video_terms |-> StrV(<<>>),
     audio_file |-> NoneV, audio_duration |-> NoneV, sub_maker |-> FALSE,
     subtitle_path |-> <<>>, downloaded_videos |-> NoneV,
     progress |-> FFromInt(0), i |-> 0,
     final_video_paths |-> <<>>, combined_video_paths |-> <<>>]

\* one delegate invocation: which, for which output, with what, yielding what
Call(name, index, arg, out) ==
    [name |-> name, index |-> index, arg |-> arg, out |-> out]

Running == [ret |-> "running", val |-> NoneV, exc |-> ""]
Returned(val) == [ret |-> "returned", val |-> val, exc |-> ""]
Raised(exc) == [ret |-> "raised", val |-> NoneV, exc |-> exc]
DictV(fl) == [k |-> "dict", v |-> RecOf(fl)]

Config == <<enable_redis, subtitle_provider>>

\* no video.py function is being called
NoCall == [fn |-> "none"]

\* the previous store call of the run has returned
Idle(t) == pending[t] = <<>>

\* (mutation) the stop tests never hold: every run goes on to the end
Stops_Never(t, stage) == FALSE

\* the tests `if stop_at == "<stage>"` of lines 402, 418, 434, 446, 465
Stops(t, stage) == stop_at[t] = stage

\* ------------------------------------------------ start(), task.py 360-502
\* lines 388-392: start is called with params from P and stop_at from S, and
\* makes the first store write
StartWith(t, P, S) ==
    /\ pc[t] = "ready"
    /\ \E p \in P, s \in S :
        /\ params' = [params EXCEPT ![t] = p]
        /\ stop_at' = [stop_at EXCEPT ![t] = s]
    /\ loc' = [loc EXCEPT ![t] = InitLocals]
    /\ result' = [result EXCEPT ![t] = Running]
    /\ update_task(t, TASK_STATE_PROCESSING, FFromInt(5), <<>>)
    /\ pc' = [pc EXCEPT ![t] = "script"]
    /\ UNCHANGED <<Config, media, calls, files>>

Start(t) == StartWith(t, RelevantParams, StopAts)

\* line 395 (generate_script, 39-55) up to its store write: line 51 when no
\* script comes out, line 400 when one does
GenerateScript(t) ==
    /\ pc[t] = "script" /\ Idle(t)
    /\ LET given == Strip(params[t].video_script)
       IN  \E out \in LlmScripts :
            /\ given # <<>> => out = <<>>
            /\ LET video_script == IF given # <<>> THEN given ELSE out
               IN  /\ calls' = [calls EXCEPT ![t] =
                          IF given = <<>>
                          THEN Append(@, Call("llm.generate_script", 0, 0,
                                              IF out = <<>> THEN "empty"
                                              ELSE "ok"))
                          ELSE @]
                   /\ IF ~Truthy(StrV(video_script))
                      THEN /\ update_task(t, TASK_STATE_FAILED, FFromInt(0), <<>>)
                           /\ pc' = [pc EXCEPT ![t] = "script_failed"]
                           /\ UNCHANGED loc
                      ELSE /\ update_task(t, TASK_STATE_PROCESSING,
                                          FFromInt(10), <<>>)
                           /\ loc' = [loc EXCEPT ![t].video_script = video_script]
                           /\ pc' = [pc EXCEPT ![t] = "script_done"]
    /\ UNCHANGED <<Config, media, params, stop_at, result, files>>

\* the positions of start right after a stage helper returned nothing
FailedPcs == {"script_failed", "terms_failed", "audio_failed",
              "materials_failed"}

\* a stage helper returned nothing: start writes `state` and goes to `next`
StageFailedWith(t, state, next) ==
    /\ pc[t] \in FailedPcs
    /\ Idle(t)
    /\ update_task(t, state, FFromInt(0), <<>>)
    /\ result' = [result EXCEPT ![t] =
           IF next = "done" THEN Returned(NoneV) ELSE @]
    /\ pc' = [pc EXCEPT ![t] = next]
    /\ UNCHANGED <<Config, media, params, stop_at, loc, calls, files>>

\* (mutation) start writes PROCESSING where it should write FAILED
StageFailed_Processing(t) == StageFailedWith(t, TASK_STATE_PROCESSING, "done")

\* (mutation) start runs the pipeline again after a failed stage
StageFailed_Retry(t) == StageFailedWith(t, TASK_STATE_FAILED, "script")

\* lines 397, 413, 429, 462: start marks the task failed again and returns
StageFailed(t) == StageFailedWith(t, TASK_STATE_FAILED, "done")

\* lines 402-406
StopAtScript(t) ==
    /\ pc[t] = "script_done" /\ Idle(t)
    /\ Stops(t, "script")
    /\ update_task(t, TASK_STATE_COMPLETE, FFromInt(100),
                   <<<<"script", StrV(loc[t].video_script)>>>>)
    /\ result' = [result EXCEPT ![t] =
           Returned(DictV(<<<<"script", StrV(loc[t].video_script)>>>>))]
    /\ pc' = [pc EXCEPT ![t] = "done"]
    /\ UNCHANGED <<Config, media, params, stop_at, loc, calls, files>>

\* lines 408-424 (generate_terms, 83-104; save_script_data) up to the store
\* write: line 100 on empty terms, line 419 when stopping, else line 424
GenerateTerms(t) ==
    /\ pc[t] = "script_done" /\ Idle(t)
    /\ ~Stops(t, "script")
    /\ LET p == params[t]
           remote == p.video_source # "local"
           ask == remote /\ ~Truthy(p.video_terms)
       IN  \E out \in LlmTerms :
            /\ ~ask => out = ListV(<<>>)
            /\ LET video_terms ==
                       IF ~remote THEN StrV(<<>>)
                       ELSE IF ask THEN out
                       ELSE ParseTerms(p.video_terms)
               IN  /\ calls' = [calls EXCEPT ![t] =
                          IF ask
                          THEN Append(@, Call("llm.generate_terms", 0, 0,
                                              IF out.v = <<>> THEN "empty"
                                              ELSE "ok"))
                          ELSE @]
                   /\ IF video_terms.k = "raise"
                      THEN /\ result' = [result EXCEPT ![t] =
                                  Raised(video_terms.v)]
                           /\ pc' = [pc EXCEPT ![t] = "raised"]
                           /\ UNCHANGED <<_tasks, _redis, pending, writes,
                                          loc, files>>
                      ELSE IF remote /\ ~Truthy(video_terms)
                      THEN /\ update_task(t, TASK_STATE_FAILED, FFromInt(0), <<>>)
                           /\ pc' = [pc EXCEPT ![t] = "terms_failed"]
                           /\ UNCHANGED <<loc, result, files>>
                      ELSE /\ loc' = [loc EXCEPT ![t].video_terms = video_terms]
                           /\ files' = [files EXCEPT ![t] = @ \cup {<<"script.json">>}]
                           /\ IF Stops(t, "terms")
                              THEN /\ update_task(t, TASK_STATE_COMPLETE,
                                          FFromInt(100),
                                          <<<<"terms", video_terms>>>>)
                                   /\ result' = [result EXCEPT ![t] =
                                          Returned(DictV(
                                            <<<<"script", StrV(loc[t].video_script)>>,
                                              <<"terms", video_terms>>>>))]
                                   /\ pc' = [pc EXCEPT ![t] = "done"]
                              ELSE /\ update_task(t, TASK_STATE_PROCESSING,
                                          FFromInt(20), <<>>)
                                   /\ pc' = [pc EXCEPT ![t] = "terms_done"]
                                   /\ UNCHANGED result
    /\ UNCHANGED <<Config, media, params, stop_at>>

\* lines 427-432 (generate_audio, 157-176) up to the store write: line 166
\* when the synthesizer returns None, else line 432
GenerateAudio(t) ==
    /\ pc[t] = "terms_done" /\ Idle(t)
    /\ \/ /\ calls' = [calls EXCEPT ![t] =
                 Append(@, Call("voice.tts", 0, 0, "empty"))]
          /\ update_task(t, TASK_STATE_FAILED, FFromInt(0), <<>>)
          /\ pc' = [pc EXCEPT ![t] = "audio_failed"]
          /\ UNCHANGED <<loc, files>>
       \/ \E d \in AudioTenths :
          /\ calls' = [calls EXCEPT ![t] =
                 Append(@, Call("voice.tts", 0, d, "ok"))]
          /\ loc' = [loc EXCEPT
                 ![t].audio_file = StrV(TaskPath(t, <<"audio.mp3">>)),
                 ![t].audio_duration = IntV(CeilTenths(d)),
                 ![t].sub_maker = TRUE]
          /\ files' = [files EXCEPT ![t] = @ \cup {<<"audio.mp3">>}]
          /\ update_task(t, TASK_STATE_PROCESSING, FFromInt(30), <<>>)
          /\ pc' = [pc EXCEPT ![t] = "audio_done"]
    /\ UNCHANGED <<Config, media, params, stop_at, result>>

\* lines 434-441
StopAtAudio(t) ==
    /\ pc[t] = "audio_done" /\ Idle(t)
    /\ Stops(t, "audio")
    /\ update_task(t, TASK_STATE_COMPLETE, FFromInt(100),
                   <<<<"audio_file", loc[t].audio_file>>>>)
    /\ result' = [result EXCEPT ![t] =
           Returned(DictV(<<<<"audio_file", loc[t].audio_file>>,
                            <<"audio_duration", loc[t].audio_duration>>>>))]
    /\ pc' = [pc EXCEPT ![t] = "done"]
    /\ UNCHANGED <<Config, media, params, stop_at, loc, calls, files>>

\* (mutation) a missing file after the timing-based generator is not made up
\* for by the transcriber
SubtitleOutcomes_NoFallback(t) ==
    IF ~params[t].subtitle_enabled
    THEN {[calls |-> <<>>, file |-> FALSE, path |-> <<>>]}
    ELSE { [calls |->
                (IF subtitle_provider = "edge"
                 THEN <<Call("voice.create_subtitle", 0, 0,
                             IF made THEN "file" ELSE "nofile")>>
                 ELSE <<>>)
                \o (IF subtitle_provider = "whisper"
                    THEN <<Call("subtitle.create", 0, 0, "file"),
                           Call("subtitle.correct", 0, 0, "ok")>>
                    ELSE <<>>)
                \o <<Call("subtitle.file_to_subtitles", 0, 0,
                           IF cues THEN "cues" ELSE "empty")>>,
            file |-> subtitle_provider = "whisper"
                        \/ (subtitle_provider = "edge" /\ made),
            path |-> IF cues THEN TaskPath(t, <<"subtitle.srt">>) ELSE <<>>] :
           made \in (IF subtitle_provider = "edge" THEN BOOLEAN ELSE {FALSE}),
           cues \in (IF subtitle_provider \in {"edge", "whisper"}
                     THEN BOOLEAN ELSE {FALSE}) }

\* (mutation) the subtitle path is returned even when the file has no cue
SubtitleOutcomes_KeepPath(t) ==
    IF ~params[t].subtitle_enabled
    THEN {[calls |-> <<>>, file |-> FALSE, path |-> <<>>]}
    ELSE { [calls |->
                (IF subtitle_provider = "edge"
                 THEN <<Call("voice.create_subtitle", 0, 0,
                             IF made THEN "file" ELSE "nofile")>>
                 ELSE <<>>)
                \o (IF subtitle_provider = "whisper"
                       \/ (subtitle_provider = "edge" /\ ~made)
                    THEN <<Call("subtitle.create", 0, 0, "file"),
                           Call("subtitle.correct", 0, 0, "ok")>>
                    ELSE <<>>)
                \o <<Call("subtitle.file_to_subtitles", 0, 0,
                           IF cues THEN "cues" ELSE "empty")>>,
            file |-> subtitle_provider \in {"edge", "whisper"},
            path |-> TaskPath(t, <<"subtitle.srt">>)] :
           made \in (IF subtitle_provider = "edge" THEN BOOLEAN ELSE {FALSE}),
           cues \in (IF subtitle_provider \in {"edge", "whisper"}
                     THEN BOOLEAN ELSE {FALSE}) }

\* generate_subtitle, lines 203-229: the delegates it invokes, whether the
\* subtitle file exists afterwards, and the path it returns
SubtitleOutcomes(t) ==
    IF ~params[t].subtitle_enabled
    THEN {[calls |-> <<>>, file |-> FALSE, path |-> <<>>]}
    ELSE { [calls |->
                (IF subtitle_provider = "edge"
                 THEN <<Call("voice.create_subtitle", 0, 0,
                             IF made THEN "file" ELSE "nofile")>>
                 ELSE <<>>)
                \o (IF subtitle_provider = "whisper"
                       \/ (subtitle_provider = "edge" /\ ~made)
                    THEN <<Call("subtitle.create", 0, 0, "file"),
                           Call("subtitle.correct", 0, 0, "ok")>>
                    ELSE <<>>)
                \o <<Call("subtitle.file_to_subtitles", 0, 0,
                           IF cues THEN "cues" ELSE "empty")>>,
            file |-> subtitle_provider \in {"edge", "whisper"},
            path |-> IF cues THEN TaskPath(t, <<"subtitle.srt">>) ELSE <<>>] :
           made \in (IF subtitle_provider = "edge" THEN BOOLEAN ELSE {FALSE}),
           cues \in (IF subtitle_provider \in {"edge", "whisper"}
                     THEN BOOLEAN ELSE {FALSE}) }

\* lines 444-455 up to the store write: line 447 when stopping, else line 455
GenerateSubtitle(t) ==
    /\ pc[t] = "audio_done" /\ Idle(t)
    /\ ~Stops(t, "audio")
    /\ \E o \in SubtitleOutcomes(t) :
        /\ calls' = [calls EXCEPT ![t] = @ \o o.calls]
        /\ files' = [files EXCEPT ![t] =
               IF o.file THEN @ \cup {<<"subtitle.srt">>} ELSE @]
        /\ loc' = [loc EXCEPT ![t].subtitle_path = o.path]
        /\ IF Stops(t, "subtitle")
           THEN /\ update_task(t, TASK_STATE_COMPLETE, FFromInt(100),
                               <<<<"subtitle_path", StrV(o.path)>>>>)
                /\ result' = [result EXCEPT ![t] =
                       Returned(DictV(<<<<"subtitle_path", StrV(o.path)>>>>))]
                /\ pc' = [pc EXCEPT ![t] = "done"]
           ELSE /\ update_task(t, TASK_STATE_PROCESSING, FFromInt(40), <<>>)
                /\ pc' = [pc EXCEPT ![t] = "subtitle_done"]
                /\ UNCHANGED result
    /\ UNCHANGED <<Config, media, params, stop_at>>

\* get_video_materials, lines 256-285: the delegate invoked and what it yields
MaterialOutcomes(t) ==
    IF params[t].video_source = "local"
    THEN LET urls == MaterialUrls(preprocess_video(params[t].video_materials))
         IN  {[call |-> Call("video.preprocess_video", 0, 0,
                             IF urls.v = <<>> THEN "empty" ELSE "ok"),
               videos |-> urls]}
    ELSE {[call |-> Call("material.download_videos", 0,
                         loc[t].audio_duration.v * params[t].video_count,
                         IF d.v = <<>> THEN "empty" ELSE "ok"),
           videos |-> d] : d \in Downloads}

\* lines 458-474 up to the store write: line 262 / 280 when nothing comes
\* back, line 466 when stopping, else line 474
GetVideoMaterials(t) ==
    /\ pc[t] = "subtitle_done" /\ Idle(t)
    /\ \E o \in MaterialOutcomes(t) :
        /\ calls' = [calls EXCEPT ![t] = Append(@, o.call)]
        /\ IF ~Truthy(o.videos)
           THEN /\ update_task(t, TASK_STATE_FAILED, FFromInt(0), <<>>)
                /\ pc' = [pc EXCEPT ![t] = "materials_failed"]
                /\ UNCHANGED <<loc, result>>
           ELSE IF Stops(t, "materials")
           THEN /\ update_task(t, TASK_STATE_COMPLETE, FFromInt(100),
                               <<<<"materials", o.videos>>>>)
                /\ loc' = [loc EXCEPT ![t].downloaded_videos = o.videos]
                /\ result' = [result EXCEPT ![t] =
                       Returned(DictV(<<<<"materials", o.videos>>>>))]
                /\ pc' = [pc EXCEPT ![t] = "done"]
           ELSE /\ update_task(t, TASK_STATE_PROCESSING, FFromInt(50), <<>>)
                /\ loc' = [loc EXCEPT ![t].downloaded_videos = o.videos,
                                      ![t].progress = FFromInt(50),
                                      ![t].i = 0]
                /\ pc' = [pc EXCEPT ![t] = "combine"]
                /\ UNCHANGED result
    /\ UNCHANGED <<Config, media, params, stop_at, files>>

\* generate_final_videos, lines 321-338: combine_videos for output i + 1,
\* then the first progress write; an exception escapes start
CombineVideos(t) ==
    /\ pc[t] = "combine" /\ Idle(t)
    /\ loc[t].i < params[t].video_count
    /\ \/ /\ calls' = [calls EXCEPT ![t] =
                 Append(@, Call("video.combine_videos", loc[t].i + 1,
                                FinalConcatMode(params[t]), "raise"))]
          /\ result' = [result EXCEPT ![t] = Raised("Exception")]
          /\ pc' = [pc EXCEPT ![t] = "raised"]
          /\ UNCHANGED <<_tasks, _redis, pending, writes, loc, files>>
       \/ /\ calls' = [calls EXCEPT ![t] =
                 Append(@, Call("video.combine_videos", loc[t].i + 1,
                                FinalConcatMode(params[t]), "ok"))]
          /\ files' = [files EXCEPT ![t] =
                 @ \cup {IndexedName("combined-", loc[t].i + 1)}]
          /\ loc' = [loc EXCEPT ![t].progress =
                 HalfStep(@, params[t].video_count)]
          /\ update_task(t, TASK_STATE_PROCESSING,
                         HalfStep(loc[t].progress, params[t].video_count), <<>>)
          /\ pc' = [pc EXCEPT ![t] = "render"]
          /\ UNCHANGED result
    /\ UNCHANGED <<Config, media, params, stop_at>>

\* generate_final_videos, lines 340-355: generate_video for output i + 1,
\* then the second progress write; an exception escapes start
GenerateVideo(t) ==
    /\ pc[t] = "render" /\ Idle(t)
    /\ \/ /\ calls' = [calls EXCEPT ![t] =
                 Append(@, Call("video.generate_video", loc[t].i + 1, 0,
                                "raise"))]
          /\ result' = [result EXCEPT ![t] = Raised("Exception")]
          /\ pc' = [pc EXCEPT ![t] = "raised"]
          /\ UNCHANGED <<_tasks, _redis, pending, writes, loc, files>>
       \/ /\ calls' = [calls EXCEPT ![t] =
                 Append(@, Call("video.generate_video", loc[t].i + 1, 0,
                                "ok"))]
          /\ files' = [files EXCEPT ![t] =
                 @ \cup {IndexedName("final-", loc[t].i + 1)}]
          /\ loc' = [loc EXCEPT
                 ![t].progress = HalfStep(@, params[t].video_count),
                 ![t].final_video_paths = Append(@,
                     StrV(TaskPath(t, IndexedName("final-", loc[t].i + 1)))),
                 ![t].combined_video_paths = Append(@,
                     StrV(TaskPath(t, IndexedName("combined-", loc[t].i + 1)))),
                 ![t].i = @ + 1]
          /\ update_task(t, TASK_STATE_PROCESSING,
                         HalfStep(loc[t].progress, params[t].video_count), <<>>)
          /\ pc' = [pc EXCEPT ![t] = "combine"]
          /\ UNCHANGED result
    /\ UNCHANGED <<Config, media, params, stop_at>>

\* (mutation) the materials are left out of the consolidated result
FinalKwargs_NoMaterials(t) ==
    <<<<"videos", ListV(loc[t].final_video_paths)>>,
      <<"combined_videos", ListV(loc[t].combined_video_paths)>>,
      <<"script", StrV(loc[t].video_script)>>,
      <<"terms", loc[t].video_terms>>,
      <<"audio_file", loc[t].audio_file>>,
      <<"audio_duration", loc[t].audio_duration>>,
      <<"subtitle_path", StrV(loc[t].subtitle_path)>>>>

\* the consolidated result of lines 489-498
FinalKwargs(t) ==
    <<<<"videos", ListV(loc[t].final_video_paths)>>,
      <<"combined_videos", ListV(loc[t].combined_video_paths)>>,
      <<"script", StrV(loc[t].video_script)>>,
      <<"terms", loc[t].video_terms>>,
      <<"audio_file", loc[t].audio_file>>,
      <<"audio_duration", loc[t].audio_duration>>,
      <<"subtitle_path", StrV(loc[t].subtitle_path)>>,
      <<"materials", loc[t].downloaded_videos>>>>

\* lines 481-502, once the loop of generate_final_videos is over
FinishVideos(t) ==
    /\ pc[t] = "combine" /\ Idle(t)
    /\ loc[t].i >= params[t].video_count
    /\ IF loc[t].final_video_paths = <<>>
       THEN /\ update_task(t, TASK_STATE_FAILED, FFromInt(0), <<>>)
            /\ result' = [result EXCEPT ![t] = Returned(NoneV)]
       ELSE /\ update_task(t, TASK_STATE_COMPLETE, FFromInt(100),
                           FinalKwargs(t))
            /\ result' = [result EXCEPT ![t] = Returned(DictV(FinalKwargs(t)))]
    /\ pc' = [pc EXCEPT ![t] = "done"]
    /\ UNCHANGED <<Config, media, params, stop_at, loc, calls, files>>

\* -------------------------------------------------------- specification
\* after construction: empty store, no run started; t1 is the task run
Init ==
    /\ enable_redis \in BOOLEAN
    /\ subtitle_provider \in {"edge", "whisper", ""}
    /\ _tasks = [t \in Tasks |-> EmptyRec]
    /\ _redis = [t \in Tasks |-> EmptyRec]
    /\ pending = [t \in Tasks |-> <<>>]
    /\ pc = [t \in Tasks |-> IF t = "t1" THEN "ready" ELSE "off"]
    /\ params = [t \in Tasks |-> NoParams]
    /\ stop_at = [t \in Tasks |-> "video"]
    /\ loc = [t \in Tasks |-> InitLocals]
    /\ calls = [t \in Tasks |-> <<>>]
    /\ writes = [t \in Tasks |-> <<>>]
    /\ result = [t \in Tasks |-> Running]
    /\ files = [t \in Tasks |-> {}]
    /\ media = NoCall

Next ==
    \E t \in Tasks :
        \/ Start(t)
        \/ GenerateScript(t)
        \/ StageFailed(t)
        \/ StopAtScript(t)
        \/ GenerateTerms(t)
        \/ GenerateAudio(t)
        \/ StopAtAudio(t)
        \/ GenerateSubtitle(t)
        \/ GetVideoMaterials(t)
        \/ CombineVideos(t)
        \/ GenerateVideo(t)
        \/ FinishVideos(t)
        \/ RedisHSet(t)

Spec == Init /\ [][Next]_vars

\* ------------------------------------------ two runs on the shared store
\* the params and stop_at of two runs that go on side by side
TwoRunParams ==
    { p \in RelevantParams :
        /\ p.video_script = <<" ", "s">>
        /\ p.video_count = 1
        /\ p.video_concat_mode = "random"
        /\ ~p.subtitle_enabled
        /\ p.video_terms \in {NoneV, ListV(<<StrV(<<" ", "a">>), StrV(<<"b">>)>>)}
        /\ p.video_materials \in {<<>>, <<BigImage>>} }

StartOneOfTwo(t) ==
    StartWith(t, TwoRunParams, {"script", "audio", "video"})

InitTwo ==
    /\ enable_redis \in BOOLEAN
    /\ subtitle_provider = "edge"
    /\ _tasks = [t \in Tasks |-> EmptyRec]
    /\ _redis = [t \in Tasks |-> EmptyRec]
    /\ pending = [t \in Tasks |-> <<>>]
    /\ pc = [t \in Tasks |-> "ready"]
    /\ params = [t \in Tasks |-> NoParams]
    /\ stop_at = [t \in Tasks |-> "video"]
    /\ loc = [t \in Tasks |-> InitLocals]
    /\ calls = [t \in Tasks |-> <<>>]
    /\ writes = [t \in Tasks |-> <<>>]
    /\ result = [t \in Tasks |-> Running]
    /\ files = [t \in Tasks |-> {}]
    /\ media = NoCall

NextTwo ==
    \E t \in Tasks :
        \/ StartOneOfTwo(t)
        \/ GenerateScript(t)
        \/ StageFailed(t)
        \/ StopAtScript(t)
        \/ GenerateTerms(t)
        \/ GenerateAudio(t)
        \/ StopAtAudio(t)
        \/ GenerateSubtitle(t)
        \/ GetVideoMaterials(t)
        \/ CombineVideos(t)
        \/ GenerateVideo(t)
        \/ FinishVideos(t)
        \/ RedisHSet(t)

TwoSpec == InitTwo /\ [][NextTwo]_vars

\* --------------------------------------- the store called directly
ApiStates == {TASK_STATE_PROCESSING, TASK_STATE_COMPLETE}

\* progress arguments: 0, 62.5, 100 and one above 100
ApiProgress == {FFromInt(0), FHalf(FFromInt(125)), FFromInt(100),
                FFromInt(MaxProgressArg)}

ApiKwargs ==
    { <<>>,
      <<<<"script", StrV(<<"s">>)>>>>,
      <<<<"script", StrV(<<"1", "2">>)>>>>,
      <<<<"terms", ListV(<<StrV(<<"a">>), StrV(<<"b">>)>>)>>,
        <<"audio_duration", IntV(2)>>>> }

ApiBudget == Len(writes["t1"]) + Len(writes["t2"]) < MaxApiCalls

\* a caller invokes sm.state.update_task(task_id, state, progress, **kwargs)
ApiUpdate(id) ==
    /\ pc[id] = "off" /\ Idle(id) /\ ApiBudget
    /\ \E st \in ApiStates, pr \in ApiProgress, kw \in ApiKwargs :
           update_task(id, st, pr, kw)
    /\ UNCHANGED <<Config, media, pc, params, stop_at, loc, calls, result, files>>

\* a caller invokes sm.state.delete_task(task_id)
ApiDelete(id) ==
    /\ pc[id] = "off" /\ Idle(id) /\ ApiBudget
    /\ writes' = [writes EXCEPT ![id] =
           Append(@, [op |-> "delete", state |-> 0, progress |-> 0,
                      fields |-> {}, arg |-> FFromInt(0), kwargs |-> <<>>])]
    /\ IF enable_redis
       THEN _redis' = RedisState_delete_task(_redis, id) /\ UNCHANGED _tasks
       ELSE _tasks' = MemoryState_delete_task(_tasks, id) /\ UNCHANGED _redis
    /\ UNCHANGED <<Config, media, pending, pc, params, stop_at, loc, calls, result,
                   files>>

InitStore ==
    /\ enable_redis \in BOOLEAN
    /\ subtitle_provider = ""
    /\ _tasks = [t \in Tasks |-> EmptyRec]
    /\ _redis = [t \in Tasks |-> EmptyRec]
    /\ pending = [t \in Tasks |-> <<>>]
    /\ pc = [t \in Tasks |-> "off"]
    /\ params = [t \in Tasks |-> NoParams]
    /\ stop_at = [t \in Tasks |-> "video"]
    /\ loc = [t \in Tasks |-> InitLocals]
    /\ calls = [t \in Tasks |-> <<>>]
    /\ writes = [t \in Tasks |-> <<>>]
    /\ result = [t \in Tasks |-> Running]
    /\ files = [t \in Tasks |-> {}]
    /\ media = NoCall

NextStore ==
    \E id \in Tasks :
        \/ ApiUpdate(id)
        \/ ApiDelete(id)
        \/ RedisHSet(id)

StoreSpec == InitStore /\ [][NextStore]_vars

\* ------------------------------------- combine_videos, video.py 50-187
\* Durations are doubles on the grid of 2^-52, held as i + hi/2^26 + lo/2^52
\* with i the floor (negative for a negative value); every double of
\* magnitude 1 or more is on the grid, and so is every sum or difference of
\* two of them. A clip is a stretch of a source video:
\* [src: index in video_paths, from: start in the source, dur: its length].
\* most source videos handed to combine_videos
MaxSourceVideos == 2

\* most passes of the filling loop followed when there is no clip to walk
\* (media.passes only counts them: combine_videos has no such variable)
MaxEmptyPasses == 3

Double(i, hi, lo) == [i |-> i, hi |-> hi, lo |-> lo]

\* the doubles 1.2 and 3.6
D_1_2 == Double(1, 13421772, 53687091)
D_3_6 == Double(3, 40265318, 26843546)

\* VideoFileClip(video_path).duration of the sources
SourceDurations == {FFromInt(0), D_1_2, FFromInt(2), FFromInt(10)}

\* AudioFileClip(audio_file).duration
AudioDurations == {FFromInt(1), D_3_6, FFromInt(12)}

\* max_clip_duration
MaxClipDurations == {5, 7}

\* -x (exact)
FNeg(x) ==
    IF x.hi = 0 /\ x.lo = 0 THEN Double(0 - x.i, 0, 0)
    ELSE FNorm(0 - x.i - 1, Limb - 1 - x.hi, Limb - x.lo)

\* x < y
FLess(x, y) ==
    \/ x.i < y.i
    \/ x.i = y.i /\ x.hi < y.hi
    \/ x.i = y.i /\ x.hi = y.hi /\ x.lo < y.lo

\* x + y and x - y, rounded to the nearest double, ties to even
FPlus(x, y) ==
    LET z == FNorm(x.i + y.i, x.hi + y.hi, x.lo + y.lo)
    IN  IF z.i < 0 THEN FNeg(FRound(FNeg(z), FALSE)) ELSE FRound(z, FALSE)

FMinus(x, y) == FPlus(x, FNeg(y))

\* min(x, y)
FMin(x, y) == IF FLess(y, x) THEN y ELSE x

\* every variable of the pipeline and the store
Pipeline == <<Config, _tasks, _redis, pending, pc, params, stop_at, loc, calls,
              writes, result, files>>

\* the pipeline and the store as they are after construction, no run started
PipelineOff ==
    /\ enable_redis = FALSE
    /\ subtitle_provider = ""
    /\ _tasks = [t \in Tasks |-> EmptyRec]
    /\ _redis = [t \in Tasks |-> EmptyRec]
    /\ pending = [t \in Tasks |-> <<>>]
    /\ pc = [t \in Tasks |-> "off"]
    /\ params = [t \in Tasks |-> NoParams]
    /\ stop_at = [t \in Tasks |-> "video"]
    /\ loc = [t \in Tasks |-> InitLocals]
    /\ calls = [t \in Tasks |-> <<>>]
    /\ writes = [t \in Tasks |-> <<>>]
    /\ result = [t \in Tasks |-> Running]
    /\ files = [t \in Tasks |-> {}]

\* the sequences over S of length 1 to n
RECURSIVE SeqsUpTo(_, _)
SeqsUpTo(S, n) ==
    IF n = 0 THEN {}
    ELSE SeqsUpTo(S, n - 1) \cup [1..n -> S]

\* clip.subclip(0, t_end).duration: a negative t_end counts from the end of
\* the clip
Subclip(duration, t_end) ==
    IF FLess(t_end, FFromInt(0)) THEN FPlus(duration, t_end) ELSE t_end

\* lines 124-128 and 167-168: the duration of the clip put on the timeline
TrimClip(duration, remaining, req_dur, max_clip_duration) ==
    LET d1 == IF FLess(remaining, duration) THEN Subclip(duration, remaining)
              ELSE IF FLess(req_dur, duration) THEN Subclip(duration, req_dur)
              ELSE duration
    IN  IF FLess(max_clip_duration, d1) THEN Subclip(d1, max_clip_duration)
        ELSE d1

\* random.shuffle: every order of the list
RECURSIVE Shuffles(_)
Shuffles(l) ==
    IF l = <<>> THEN {<<>>}
    ELSE UNION { { <<l[n]>> \o rest :
                     rest \in Shuffles(SubSeq(l, 1, n - 1)
                                       \o SubSeq(l, n + 1, Len(l))) } :
                 n \in DOMAIN l }

\* concatenate_videoclips(clips).duration: the running sum of the durations
RECURSIVE TotalDuration(_)
TotalDuration(clips) ==
    IF clips = <<>> THEN FFromInt(0)
    ELSE FPlus(TotalDuration(SubSeq(clips, 1, Len(clips) - 1)),
               clips[Len(clips)].dur)

\* lines 86-105: the call, up to the first source video being opened
CombineCall(durations, audio_duration, max_clip_duration, mode) ==
    [fn |-> "combine_videos", pc |-> "split",
     durations |-> durations, audio_duration |-> audio_duration,
     max_clip_duration |-> FFromInt(max_clip_duration),
     req_dur |-> FFromInt(max_clip_duration),
     video_concat_mode |-> mode,
     n |-> 1, start_time |-> FFromInt(0), raw_clips |-> <<>>,
     k |-> 1, clips |-> <<>>, video_duration |-> FFromInt(0),
     duration |-> FFromInt(0), passes |-> 0]

\* (mutation) the segment is not cut at the end of the source
EndTime_NoMin(start_time, max_clip_duration, clip_duration) ==
    FPlus(start_time, max_clip_duration)

\* line 108: end_time = min(start_time + max_clip_duration, clip_duration)
EndTime(start_time, max_clip_duration, clip_duration) ==
    FMin(FPlus(start_time, max_clip_duration), clip_duration)

\* lines 107-114: one round of the splitting loop for source video n, and
\* the move to the next source once the loop is left; a source whose
\* duration is not above 0 fails the test of line 107 at once
SplitClip ==
    /\ media.fn = "combine_videos" /\ media.pc = "split"
    /\ media.n <= Len(media.durations)
    /\ LET clip_duration == media.durations[media.n]
           end_time == EndTime(media.start_time, media.max_clip_duration,
                               clip_duration)
           leave == \/ media.video_concat_mode = "sequential"
                    \/ ~FLess(end_time, clip_duration)
       IN  IF ~FLess(media.start_time, clip_duration)
           THEN media' = [media EXCEPT !.start_time = FFromInt(0),
                                       !.n = @ + 1]
           ELSE media' = [media EXCEPT
               !.raw_clips = Append(@, [src |-> media.n,
                                        from |-> media.start_time,
                                        to |-> end_time,
                                        dur |-> FMinus(end_time,
                                                       media.start_time)]),
               !.start_time = IF leave THEN FFromInt(0) ELSE end_time,
               !.n = IF leave THEN @ + 1 ELSE @]
    /\ UNCHANGED Pipeline

\* lines 117-121: the shuffle in random mode, then the first test of the
\* filling loop
ShuffleClips ==
    /\ media.fn = "combine_videos" /\ media.pc = "split"
    /\ media.n > Len(media.durations)
    /\ \E order \in (IF media.video_concat_mode = "random"
                     THEN Shuffles(media.raw_clips)
                     ELSE {media.raw_clips}) :
          media' = [media EXCEPT
              !.raw_clips = order,
              !.k = 1,
              !.pc = IF FLess(media.video_duration, media.audio_duration)
                     THEN "fill" ELSE "concat"]
    /\ UNCHANGED Pipeline

\* lines 122-171: one round of the for loop, and at the end of a pass the
\* test of the while loop
AppendClip ==
    /\ media.fn = "combine_videos" /\ media.pc = "fill"
    /\ media.k <= Len(media.raw_clips)
    /\ LET clip == media.raw_clips[media.k]
           d == TrimClip(clip.dur,
                         FMinus(media.audio_duration, media.video_duration),
                         media.req_dur, media.max_clip_duration)
           last == media.k = Len(media.raw_clips)
       IN  media' = [media EXCEPT
               !.clips = Append(@, [clip EXCEPT !.dur = d]),
               !.video_duration = FPlus(@, d),
               !.k = IF last THEN 1 ELSE @ + 1,
               !.pc = IF last /\ ~FLess(FPlus(media.video_duration, d),
                                        media.audio_duration)
                      THEN "concat" ELSE "fill"]
    /\ UNCHANGED Pipeline

\* lines 121-122 with no clip to walk: the for loop ends at once and the
\* test of the while loop, which nothing has changed, is made again
EmptyPass ==
    /\ media.fn = "combine_videos" /\ media.pc = "fill"
    /\ media.raw_clips = <<>>
    /\ FLess(media.video_duration, media.audio_duration)
    /\ media.passes < MaxEmptyPasses
    /\ media' = [media EXCEPT !.passes = @ + 1]
    /\ UNCHANGED Pipeline

\* line 173: the timeline is concatenated
Concatenate ==
    /\ media.fn = "combine_videos" /\ media.pc = "concat"
    /\ media' = [media EXCEPT !.duration = TotalDuration(media.clips),
                              !.pc = "done"]
    /\ UNCHANGED Pipeline

InitCombine ==
    /\ PipelineOff
    /\ \E durations \in SeqsUpTo(SourceDurations, MaxSourceVideos),
          audio_duration \in AudioDurations,
          max_clip_duration \in MaxClipDurations,
          mode \in {"sequential", "random"} :
          media = CombineCall(durations, audio_duration, max_clip_duration,
                              mode)

NextCombine ==
    SplitClip \/ ShuffleClips \/ AppendClip \/ EmptyPass \/ Concatenate

CombineSpec == InitCombine /\ [][NextCombine]_vars


\* ------------------------------------------ wrap_text, video.py 190-280
\* longest text handed to wrap_text, in characters
MaxTextLen == 5

\* the characters of the texts: a blank, a narrow and a wide letter
Glyphs == {" ", "i", "W"}

\* max_width
WrapWidths == {2, 4, 7}

\* the line feed, as one token
Newline == "U+000A"

\* font.getbbox: the advance of a character, and how tall its ink is
GlyphWidth(c) == CASE c = "W" -> 3 [] c = Newline -> 0 [] OTHER -> 1
GlyphHeight(c) == CASE c = "W" -> 3 [] c = "i" -> 2 [] OTHER -> 0

\* str.strip() of a text that may hold line feeds
RECURSIVE StripWs(_)
StripWs(s) ==
    IF s # <<>> /\ Head(s) \in {" ", Newline} THEN StripWs(Tail(s))
    ELSE IF s # <<>> /\ s[Len(s)] \in {" ", Newline}
         THEN StripWs(SubSeq(s, 1, Len(s) - 1))
    ELSE s

RECURSIVE SumWidths(_)
SumWidths(s) == IF s = <<>> THEN 0 ELSE GlyphWidth(Head(s)) + SumWidths(Tail(s))

RECURSIVE MaxHeight(_)
MaxHeight(s) ==
    IF s = <<>> THEN 0
    ELSE LET h == GlyphHeight(Head(s))
             r == MaxHeight(Tail(s))
         IN  IF h > r THEN h ELSE r

\* get_text_size, lines 230-232: the box of the stripped text
TextWidth(inner_text) == SumWidths(StripWs(inner_text))
TextHeight(inner_text) == MaxHeight(StripWs(inner_text))

\* (mutation) `<` where the code has `<=`
Fits_Strict(width, max_width) == width < max_width

\* the tests `width <= max_width` of lines 235, 249, 271
Fits(width, max_width) == width <= max_width

\* text.split(" ")
RECURSIVE SplitOn(_, _, _, _)
SplitOn(s, sep, n, cur) ==
    IF n > Len(s) THEN <<cur>>
    ELSE IF s[n] = sep THEN <<cur>> \o SplitOn(s, sep, n + 1, <<>>)
    ELSE SplitOn(s, sep, n + 1, Append(cur, s[n]))

\* "\n".join(lines)
RECURSIVE JoinLines(_)
JoinLines(lines) ==
    IF lines = <<>> THEN <<>>
    ELSE IF Len(lines) = 1 THEN lines[1]
    ELSE lines[1] \o <<Newline>> \o JoinLines(Tail(lines))

\* [line.strip() for line in lines]
StripLines(lines) == [n \in DOMAIN lines |-> StripWs(lines[n])]

\* the call, before line 234
WrapCall(text, max_width) ==
    [fn |-> "wrap_text", pc |-> "measure", text |-> text,
     max_width |-> max_width, height |-> 0, processed |-> TRUE,
     words |-> <<>>, n |-> 1, _txt_ |-> <<>>, _wrapped_lines_ |-> <<>>,
     result |-> <<>>, result_height |-> 0]

\* lines 234-244: the text is measured; it is returned as it is when it fits
WrapMeasure ==
    /\ media.fn = "wrap_text" /\ media.pc = "measure"
    /\ IF Fits(TextWidth(media.text), media.max_width)
       THEN media' = [media EXCEPT !.pc = "done",
                                   !.height = TextHeight(media.text),
                                   !.result = media.text,
                                   !.result_height = TextHeight(media.text)]
       ELSE media' = [media EXCEPT !.pc = "words",
                                   !.height = TextHeight(media.text),
                                   !.words = SplitOn(media.text, " ", 1, <<>>)]
    /\ UNCHANGED Pipeline

\* (mutation) the line is closed with the offending word on it
ClosedLine_After(_before, txt) == txt

\* line 255: the line closed when a word does not fit is the text before it
ClosedLine(_before, txt) == _before

\* lines 245-256: one round of the loop over the words; on the break the
\* character loop is entered (lines 257-267)
WordStep ==
    /\ media.fn = "wrap_text" /\ media.pc = "words"
    /\ media.n <= Len(media.words)
    /\ LET word == media.words[media.n]
           _before == media._txt_
           txt == media._txt_ \o word \o <<" ">>
       IN  IF Fits(TextWidth(txt), media.max_width)
           THEN media' = [media EXCEPT !._txt_ = txt, !.n = @ + 1]
           ELSE IF StripWs(txt) = StripWs(word)
           THEN media' = [media EXCEPT !.processed = FALSE,
                                       !.pc = "chars",
                                       !._wrapped_lines_ = <<>>,
                                       !._txt_ = <<>>,
                                       !.n = 1]
           ELSE media' = [media EXCEPT
                    !._wrapped_lines_ = Append(@, ClosedLine(_before, txt)),
                    !._txt_ = word \o <<" ">>,
                    !.n = @ + 1]
    /\ UNCHANGED Pipeline

\* lines 257-263: the loop over the words ran to its end
WordsDone ==
    /\ media.fn = "wrap_text" /\ media.pc = "words"
    /\ media.n > Len(media.words)
    /\ LET lines == StripLines(Append(media._wrapped_lines_, media._txt_))
       IN  media' = [media EXCEPT !._wrapped_lines_ = lines,
                                  !.result = StripWs(JoinLines(lines)),
                                  !.result_height = Len(lines) * media.height,
                                  !.pc = "done"]
    /\ UNCHANGED Pipeline

\* lines 268-275: one round of the loop over the characters
CharStep ==
    /\ media.fn = "wrap_text" /\ media.pc = "chars"
    /\ media.n <= Len(media.text)
    /\ LET txt == Append(media._txt_, media.text[media.n])
       IN  IF Fits(TextWidth(txt), media.max_width)
           THEN media' = [media EXCEPT !._txt_ = txt, !.n = @ + 1]
           ELSE media' = [media EXCEPT
                    !._wrapped_lines_ = Append(@, txt),
                    !._txt_ = <<>>,
                    !.n = @ + 1]
    /\ UNCHANGED Pipeline

\* lines 276-280: the loop over the characters ran to its end
CharsDone ==
    /\ media.fn = "wrap_text" /\ media.pc = "chars"
    /\ media.n > Len(media.text)
    /\ LET lines == Append(media._wrapped_lines_, media._txt_)
       IN  media' = [media EXCEPT !._wrapped_lines_ = lines,
                                  !.result = StripWs(JoinLines(lines)),
                                  !.result_height = Len(lines) * media.height,
                                  !.pc = "done"]
    /\ UNCHANGED Pipeline

\* the sequences over S of length 0 to n
Texts(S, n) == {<<>>} \cup SeqsUpTo(S, n)

InitWrap ==
    /\ PipelineOff
    /\ \E text \in Texts(Glyphs, MaxTextLen), max_width \in WrapWidths :
          media = WrapCall(text, max_width)

NextWrap == WrapMeasure \/ WordStep \/ WordsDone \/ CharStep \/ CharsDone

WrapSpec == InitWrap /\ [][NextWrap]_vars

\* ------------------------------ create_text_clip(), video.py 331-385
\* The placing of one subtitle overlay by generate_video. The height of the
\* rendered text box (_clip.h) is an input; y is the vertical offset handed
\* to set_position, as a double.

\* video_height, from aspect.to_resolution() (line 308)
VideoHeights == {1080, 1920}

\* _clip.h
ClipHeights == {60, 1060, 1065, 1075, 1100, 1900, 1915}

\* params.custom_position, in percent
CustomPositions == {0, 25, 50, 75, 100}

\* params.subtitle_position
SubtitlePositions == {"bottom", "top", "custom", "center"}

\* line 377
Margin == 10

\* k * (p / 100), line 380, for a percentage p that is a multiple of 25: the
\* quotient and the product are then exact in binary64
FTimesPercent(k, p) ==
    LET q == k * (p \div 25)
    IN  Double(q \div 4, (q % 4) * (Limb \div 4), 0)

\* lines 376-381: max(min_y, min(custom_y, max_y))
CustomY(video_height, h, custom_position) ==
    LET max_y == FFromInt(video_height - h - Margin)
        min_y == FFromInt(Margin)
        custom_y == FTimesPercent(video_height - h, custom_position)
        capped == FMin(custom_y, max_y)
    IN  IF FLess(min_y, capped) THEN capped ELSE min_y

\* the call, up to line 370
TextClipCall(video_height, h, subtitle_position, custom_position) ==
    [fn |-> "create_text_clip", pc |-> "position",
     video_height |-> video_height, h |-> h,
     subtitle_position |-> subtitle_position,
     custom_position |-> custom_position,
     x |-> "center", y |-> FFromInt(0), y_centered |-> FALSE]

\* lines 371-385: set_position; for the heights of VideoHeights the rounded
\* products video_height * 0.95 and video_height * 0.05 are whole numbers
SetPosition ==
    /\ media.fn = "create_text_clip" /\ media.pc = "position"
    /\ media' = [media EXCEPT
           !.pc = "done",
           !.y = CASE media.subtitle_position = "bottom" ->
                        FMinus(FFromInt((media.video_height * 95) \div 100),
                               FFromInt(media.h))
                   [] media.subtitle_position = "top" ->
                        FFromInt((media.video_height * 5) \div 100)
                   [] media.subtitle_position = "custom" ->
                        CustomY(media.video_height, media.h,
                                media.custom_position)
                   [] OTHER -> @,
           !.y_centered = media.subtitle_position
                             \notin {"bottom", "top", "custom"}]
    /\ UNCHANGED Pipeline

InitTextClip ==
    /\ PipelineOff
    /\ \E video_height \in VideoHeights, h \in ClipHeights,
          subtitle_position \in SubtitlePositions,
          custom_position \in CustomPositions :
          media = TextClipCall(video_height, h, subtitle_position,
                               custom_position)

NextTextClip == SetPosition

TextClipSpec == InitTextClip /\ [][NextTextClip]_vars

\* ================================================================ claims
Last(q) == q[Len(q)]

HasState(t) == "state" \in DOMAIN get_task(t)
StateOf(t) == get_task(t)["state"].v
HasProgress(t) == "progress" \in DOMAIN get_task(t)
ProgressOf(t) == get_task(t)["progress"].v

\* what get_task returns after the step
get_task_next(t) == get_task_in(_redis', _tasks', t)

Terminal(t) == pc[t] = "done" /\ Idle(t)

\* start returned a mapping (it stopped, or finished, without a failure)
ReturnedDict(t) == result[t].ret = "returned" /\ result[t].val.k = "dict"

\* the stage a delegate belongs to, and the stage a stop_at names
StageRank(name) ==
    CASE name = "llm.generate_script" -> 1
      [] name = "llm.generate_terms" -> 2
      [] name = "voice.tts" -> 3
      [] name \in {"voice.create_subtitle", "subtitle.create",
                   "subtitle.correct", "subtitle.file_to_subtitles"} -> 4
      [] name \in {"video.preprocess_video", "material.download_videos"} -> 5
      [] OTHER -> 6

StopRank(stage) ==
    CASE stage = "script" -> 1 [] stage = "terms" -> 2 [] stage = "audio" -> 3
      [] stage = "subtitle" -> 4 [] stage = "materials" -> 5 [] OTHER -> 6

\* C1: in every run, failing or not, the progress values written to the
\* task's record never decrease and never exceed 100.
C1_ProgressMonotoneAlways ==
    \A t \in Tasks : \A n \in DOMAIN writes[t] :
        /\ writes[t][n].progress <= 100
        /\ n > 1 => writes[t][n - 1].progress <= writes[t][n].progress

\* C2: once the record's state is COMPLETE or FAILED, no later write of the
\* run changes it.
C2_TerminalStateAbsorbing ==
    [][\A t \in Tasks :
          (HasState(t) /\ StateOf(t) \in {TASK_STATE_COMPLETE, TASK_STATE_FAILED})
             => /\ "state" \in DOMAIN get_task_next(t)
                /\ get_task_next(t)["state"].v = StateOf(t)]_vars

\* the run wrote FAILED twice (stage helper, then start) and has returned
C2_Witness ==
    \E t \in Tasks :
        /\ Terminal(t) /\ HasState(t) /\ StateOf(t) = TASK_STATE_FAILED
        /\ Len(writes[t]) >= 3
        /\ writes[t][Len(writes[t]) - 1].state = TASK_STATE_FAILED
        /\ Last(writes[t]).state = TASK_STATE_FAILED

\* C3: a run stopped at script, terms, audio, subtitle or materials whose
\* stages succeeded ends with state COMPLETE and progress 100, having invoked
\* no delegate of a later stage.
C3_StopCompletesAndSkipsLater ==
    \A t \in Tasks :
        (Terminal(t) /\ stop_at[t] # "video" /\ ReturnedDict(t))
           => /\ HasState(t) /\ StateOf(t) = TASK_STATE_COMPLETE
              /\ HasProgress(t) /\ ProgressOf(t) = 100
              /\ \A n \in DOMAIN calls[t] :
                    StageRank(calls[t][n].name) <= StopRank(stop_at[t])

\* a run stopped at materials after the footage provider delivered
C3_Witness ==
    \E t \in Tasks :
        /\ Terminal(t) /\ stop_at[t] = "materials" /\ ReturnedDict(t)
        /\ calls[t] # <<>>
        /\ Last(calls[t]).name = "material.download_videos"

\* the script stage of the run came out with a script
ScriptSucceeded(t) ==
    \/ Strip(params[t].video_script) # <<>>
    \/ /\ calls[t] # <<>>
       /\ calls[t][1].name = "llm.generate_script" /\ calls[t][1].out = "ok"

\* C4: a run with stop_at = "script" whose script stage succeeds returns
\* exactly {script: text} and leaves the record COMPLETE, at progress 100,
\* with the script field and no audio or material field.
C4_StopAtScriptRoundTrip ==
    \A t \in Tasks :
        (Terminal(t) /\ stop_at[t] = "script" /\ ScriptSucceeded(t))
           => /\ loc[t].video_script # <<>>
              /\ result[t] =
                    Returned(DictV(<<<<"script", StrV(loc[t].video_script)>>>>))
              /\ DOMAIN get_task(t) = {"state", "progress", "script"}
              /\ StateOf(t) = TASK_STATE_COMPLETE
              /\ ProgressOf(t) = 100

\* a run stopped at script with the script the generator produced
C4_Witness ==
    \E t \in Tasks :
        /\ Terminal(t) /\ stop_at[t] = "script"
        /\ calls[t] = <<Call("llm.generate_script", 0, 0, "ok")>>

\* the artifacts of the stages up to and including a stage
ArtifactsUpTo(stage) ==
    {"script"}
    \cup (IF StopRank(stage) >= 2 THEN {"terms"} ELSE {})
    \cup (IF StopRank(stage) >= 3 THEN {"audio_file", "audio_duration"} ELSE {})
    \cup (IF StopRank(stage) >= 4 THEN {"subtitle_path"} ELSE {})
    \cup (IF StopRank(stage) >= 5 THEN {"materials"} ELSE {})
    \cup (IF StopRank(stage) >= 6 THEN {"videos", "combined_videos"} ELSE {})

\* C5: the result of a run stopped at stage S holds the artifact of every
\* stage up to S and no artifact of a later stage.
C5_ResultHoldsArtifactsSoFar ==
    \A t \in Tasks :
        (Terminal(t) /\ ReturnedDict(t))
           => DOMAIN result[t].val.v = ArtifactsUpTo(stop_at[t])

\* the delegates whose empty result fails the task
Generators == {"llm.generate_script", "llm.generate_terms", "voice.tts",
               "material.download_videos"}

\* C6: when the script generator, the term generator, the synthesizer or the
\* footage provider returns nothing, no later delegate is invoked, the
\* record's state becomes FAILED and start returns nothing.
C6_EmptyResultFailsTask ==
    \A t \in Tasks : \A n \in DOMAIN calls[t] :
        (calls[t][n].name \in Generators /\ calls[t][n].out = "empty")
           => /\ n = Len(calls[t])
              /\ pc[t] \in FailedPcs \cup {"done"}
              /\ Idle(t) => (HasState(t) /\ StateOf(t) = TASK_STATE_FAILED)
              /\ pc[t] = "done" => result[t] = Returned(NoneV)

\* a run ended after the footage provider returned nothing
C6_Witness ==
    \E t \in Tasks :
        /\ Terminal(t)
        /\ calls[t] # <<>>
        /\ Last(calls[t]).name = "material.download_videos"
        /\ Last(calls[t]).out = "empty"

\* C7: when combine or render raises for some output, the record ends FAILED.
C7_VideoExceptionFailsTask ==
    \A t \in Tasks :
        (pc[t] = "raised" /\ result[t].exc = "Exception")
           => (HasState(t) /\ StateOf(t) = TASK_STATE_FAILED)

\* C8: caller terms that are neither a string nor a list are rejected and the
\* task is marked FAILED, the record being otherwise as it was.
C8_InvalidTermsFailsTask ==
    \A t \in Tasks :
        (pc[t] = "raised" /\ result[t].exc = "ValueError")
           => /\ HasState(t) /\ StateOf(t) = TASK_STATE_FAILED
              /\ DOMAIN get_task(t) = {"state", "progress"}

\* the delegates the no-retry rule names
OnceOnly == Generators \cup {"video.preprocess_video", "video.combine_videos",
                             "video.generate_video"}

\* C9: in one run each generator is invoked at most once, and combine and
\* render at most once per output index.
C9_NoRetry ==
    \A t \in Tasks : \A n, m \in DOMAIN calls[t] :
        (n # m /\ calls[t][n].name \in OnceOnly
              /\ calls[t][n].name = calls[t][m].name)
           => calls[t][n].index # calls[t][m].index

\* a run that asked the script generator went on to combine two outputs
C9_Witness ==
    \E t \in Tasks :
        /\ pc[t] \in {"done", "raised"}
        /\ \E n, m \in DOMAIN calls[t] :
              /\ calls[t][n].name = "video.combine_videos" /\ calls[t][n].index = 1
              /\ calls[t][m].name = "video.combine_videos" /\ calls[t][m].index = 2
        /\ calls[t][1].name = "llm.generate_script"

\* C10: in both backends update merges: a field an earlier update stored and
\* the present update does not name stays, with its value; and an update of an
\* absent id creates the record.
C10_UpdateMerges ==
    /\ [](\A id \in Tasks :
            (writes[id] # <<>> /\ Last(writes[id]).op = "update" /\ Idle(id))
               => HasTask(id))
    /\ [][\A id \in Tasks :
            (writes'[id] # <<>> /\ Last(writes'[id]).op = "update")
               => \A f \in DOMAIN get_task(id) :
                     f \notin (Last(writes'[id]).fields \cup {"state", "progress"})
                        => /\ f \in DOMAIN get_task_next(id)
                           /\ get_task_next(id)[f] = get_task(id)[f]]_vars

\* the store call made last for an id was an update and has returned
UpdateReturned(id) ==
    writes[id] # <<>> /\ Last(writes[id]).op = "update" /\ Idle(id)

\* min(p, 100) as an integer, for a progress argument p >= 0
MinWith100(p) == IF p.i >= 100 THEN 100 ELSE p.i

\* C11: the progress an update records is min(p, 100) as an integer, p being
\* the value passed, and no record ever holds a progress above 100.
C11_ProgressClamped ==
    \A id \in Tasks :
        /\ HasProgress(id) =>
              (get_task(id)["progress"].k = "int" /\ ProgressOf(id) <= 100)
        /\ UpdateReturned(id) =>
              (HasProgress(id) /\ ProgressOf(id) = MinWith100(Last(writes[id]).arg))

\* a second update passed a progress above 100 and the record holds 100
C11_Witness ==
    \E id \in Tasks :
        /\ UpdateReturned(id) /\ Len(writes[id]) = 2
        /\ Last(writes[id]).arg.i > 100
        /\ writes[id][1].arg.i < 100
        /\ ProgressOf(id) = 100

\* C12: in the remote backend, get after update returns every field of the
\* update with the value and the type it was stored with.
C12_RedisRoundTrip ==
    \A id \in Tasks :
        (enable_redis /\ UpdateReturned(id))
           => \A n \in DOMAIN Last(writes[id]).kwargs :
                 LET f == Last(writes[id]).kwargs[n][1]
                     v == Last(writes[id]).kwargs[n][2]
                 IN  f \in DOMAIN get_task(id) /\ get_task(id)[f] = v

\* the artifacts of a whole run, and what each stage left in start's locals
ArtifactNames == {"videos", "combined_videos", "script", "terms", "audio_file",
                  "audio_duration", "subtitle_path", "materials"}

ArtifactOf(t, f) ==
    CASE f = "videos" -> ListV(loc[t].final_video_paths)
      [] f = "combined_videos" -> ListV(loc[t].combined_video_paths)
      [] f = "script" -> StrV(loc[t].video_script)
      [] f = "terms" -> loc[t].video_terms
      [] f = "audio_file" -> loc[t].audio_file
      [] f = "audio_duration" -> loc[t].audio_duration
      [] f = "subtitle_path" -> StrV(loc[t].subtitle_path)
      [] f = "materials" -> loc[t].downloaded_videos

\* C13: after a successful run to the end the record is COMPLETE, at progress
\* 100, and holds the final videos, combined videos, script, terms, audio
\* file, audio duration, subtitle path and materials; start returns the same
\* artifacts.
C13_FinalRecordConsolidated ==
    \A t \in Tasks :
        (Terminal(t) /\ stop_at[t] = "video" /\ ReturnedDict(t))
           => /\ StateOf(t) = TASK_STATE_COMPLETE
              /\ ProgressOf(t) = 100
              /\ DOMAIN get_task(t) = {"state", "progress"} \cup ArtifactNames
              /\ DOMAIN result[t].val.v = ArtifactNames
              /\ Len(loc[t].final_video_paths) = params[t].video_count
              /\ Len(loc[t].combined_video_paths) = params[t].video_count
              /\ \A f \in ArtifactNames :
                    /\ result[t].val.v[f] = ArtifactOf(t, f)
                    /\ IF enable_redis
                       THEN _redis[t][f] = PyStr(ArtifactOf(t, f))
                       ELSE _tasks[t][f] = ArtifactOf(t, f)

\* a run to the end produced two outputs, with subtitles and generated terms
C13_Witness ==
    \E t \in Tasks :
        /\ Terminal(t) /\ stop_at[t] = "video" /\ ReturnedDict(t)
        /\ params[t].video_count = 2
        /\ loc[t].subtitle_path # <<>>
        /\ loc[t].video_terms.k = "list"

\* C14: the step that leaves the record FAILED leaves every other field the
\* record held present and unchanged.
C14_FailedWriteKeepsFields ==
    [][\A t \in Tasks :
          ("state" \in DOMAIN get_task_next(t)
             /\ get_task_next(t)["state"].v = TASK_STATE_FAILED)
             => \A f \in DOMAIN get_task(t) \ {"state"} :
                   /\ f \in DOMAIN get_task_next(t)
                   /\ get_task_next(t)[f] = get_task(t)[f]]_vars

CombineDone == media.fn = "combine_videos" /\ media.pc = "done"

\* C15: the duration D of the timeline combine builds satisfies
\* audio_duration <= D < audio_duration + max_clip_duration.
C15_TimelineCoversAudio ==
    CombineDone
       => /\ ~FLess(media.duration, media.audio_duration)
          /\ FLess(media.duration,
                   FNorm(media.audio_duration.i + media.max_clip_duration.i,
                         media.audio_duration.hi, media.audio_duration.lo))

WrapDone == media.fn = "wrap_text" /\ media.pc = "done"

\* C16: a text whose measured width is at most max_width is returned
\* unchanged, with the height of a single line.
C16_ShortTextUnchanged ==
    (WrapDone /\ TextWidth(media.text) <= media.max_width)
       => /\ media.result = media.text
          /\ media.result_height = TextHeight(media.text)

\* a text with a leading blank that is exactly as wide as max_width
C16_Witness ==
    /\ WrapDone
    /\ media.text # <<>> /\ Head(media.text) = " "
    /\ TextWidth(media.text) = media.max_width

\* the lines of the text wrap_text returned
ResultLines == SplitOn(media.result, Newline, 1, <<>>)

\* some word of the text is wider than max_width
HasWideWord ==
    \E n \in DOMAIN SplitOn(media.text, " ", 1, <<>>) :
        TextWidth(SplitOn(media.text, " ", 1, <<>>)[n]) > media.max_width

\* C17: when some word of the text, wherever it stands, is wider than
\* max_width, wrap_text wraps by characters, and every line of the result is
\* at most max_width wide unless it is a single character.
C17_WideWordCharWrapped ==
    (WrapDone /\ HasWideWord)
       => /\ ~media.processed
          /\ \A n \in DOMAIN ResultLines :
                \/ TextWidth(ResultLines[n]) <= media.max_width
                \/ Len(StripWs(ResultLines[n])) = 1

\* the materials stage of a run on local materials has delivered
LocalMaterialsDone(t) ==
    /\ params[t].video_source = "local"
    /\ loc[t].downloaded_videos.k = "list"

\* the materials of the run that are at or above the 480x480 floor
Survivors(t) ==
    {n \in DOMAIN params[t].video_materials :
        /\ params[t].video_materials[n].w >= 480
        /\ params[t].video_materials[n].h >= 480}

\* C18: preprocess_video returns the survivors only: a material below the
\* 480x480 floor is not in the returned list, one at or above it is.
C18_PreprocessReturnsSurvivors ==
    \A t \in Tasks :
        LocalMaterialsDone(t)
           => /\ Len(loc[t].downloaded_videos.v) = Cardinality(Survivors(t))
              /\ \A n \in DOMAIN params[t].video_materials :
                    (n \notin Survivors(t))
                       => \A q \in DOMAIN loc[t].downloaded_videos.v :
                             loc[t].downloaded_videos.v[q]
                                # StrV(params[t].video_materials[n].url)

\* the terms the run uses were parsed from the caller's terms
CallerTermsParsed(t) ==
    /\ params[t].video_source # "local"
    /\ params[t].video_terms.k \in {"str", "list"}
    /\ params[t].video_terms.v # <<>>
    /\ loc[t].video_terms.k = "list"

IsComma(c) == c \in {",", FullwidthComma}

\* a text without its blanks
NoBlanks(s) == SelectSeq(s, LAMBDA c : c # " ")

RECURSIVE Concat(_)
Concat(l) == IF l = <<>> THEN <<>> ELSE Head(l).v \o Concat(Tail(l))

Trimmed(s) == s = <<>> \/ (Head(s) # " " /\ s[Len(s)] # " ")

\* C19: terms given as a string are split at every ASCII and every fullwidth
\* comma, each piece trimmed, the order kept ("a, b(fullwidth comma)c" gives
\* a, b, c); terms given as a list of strings give the list of the trimmed
\* elements.
C19_CallerTermsSplitAndTrimmed ==
    \A t \in Tasks :
        CallerTermsParsed(t)
           => LET given == params[t].video_terms
                  terms == loc[t].video_terms.v
              IN  /\ \A n \in DOMAIN terms :
                        /\ terms[n].k = "str"
                        /\ Trimmed(terms[n].v)
                        /\ \A q \in DOMAIN terms[n].v : ~IsComma(terms[n].v[q])
                  /\ given.k = "str" =>
                        /\ Len(terms) = Len(SelectSeq(given.v, IsComma)) + 1
                        /\ NoBlanks(Concat(terms))
                              = SelectSeq(NoBlanks(given.v),
                                          LAMBDA c : ~IsComma(c))
                  /\ given = StrV(<<"a", ",", " ", "b", FullwidthComma, "c">>)
                        => terms = <<StrV(<<"a">>), StrV(<<"b">>), StrV(<<"c">>)>>
                  /\ given.k = "list" =>
                        /\ Len(terms) = Len(given.v)
                        /\ \A n \in DOMAIN terms :
                              NoBlanks(terms[n].v) = NoBlanks(given.v[n].v)

\* a run stopped at terms returned a, b, c for the string with both commas
C19_Witness ==
    \E t \in Tasks :
        /\ Terminal(t) /\ stop_at[t] = "terms" /\ ReturnedDict(t)
        /\ params[t].video_terms.k = "str"
        /\ \E n \in DOMAIN params[t].video_terms.v :
              params[t].video_terms.v[n] = FullwidthComma
        /\ result[t].val.v["terms"]
              = ListV(<<StrV(<<"a">>), StrV(<<"b">>), StrV(<<"c">>)>>)

\* C20: every combine call of the video stage is passed the random mode when
\* video_count is not 1, and the caller's own mode when video_count is 1.
C20_ConcatModeCoerced ==
    \A t \in Tasks : \A n \in DOMAIN calls[t] :
        calls[t][n].name = "video.combine_videos"
           => /\ params[t].video_count # 1 => calls[t][n].arg = "random"
              /\ params[t].video_count = 1
                    => calls[t][n].arg = params[t].video_concat_mode

\* a run asked for sequential and more than one output: the last output was
\* combined in random mode
C20_Witness ==
    \E t \in Tasks :
        /\ params[t].video_concat_mode = "sequential"
        /\ params[t].video_count = MaxVideoCount
        /\ \E n \in DOMAIN calls[t] :
              /\ calls[t][n].name = "video.combine_videos"
              /\ calls[t][n].index = MaxVideoCount
              /\ calls[t][n].arg = "random"

\* the run of start for t is over (it returned or let an exception out) and
\* its last store call has returned
RunOver(t) == pc[t] \in {"done", "raised"} /\ Idle(t)

\* everything the store calls of a log put into a record, in order
RECURSIVE AllFields(_)
AllFields(ws) ==
    IF ws = <<>> THEN <<>>
    ELSE FieldList(ws[1].state, ws[1].arg, ws[1].kwargs) \o AllFields(Tail(ws))

\* the record get_task returns for t when only the store calls of t's own
\* run are applied to an empty store
AloneRecord(t) ==
    IF enable_redis
    THEN LET fl == AllFields(writes[t])
         IN  [f \in FieldNames(fl) |-> _convert_to_original_type(PyStr(RecOf(fl)[f]))]
    ELSE RecOf(FieldList(Last(writes[t]).state, Last(writes[t]).arg,
                         Last(writes[t]).kwargs))

\* the run of t made a store call, or one of the hsets of its store call
StoreStepOf(t) == writes'[t] # writes[t] \/ pending'[t] # pending[t]

\* C21: with two runs interleaved on the shared store, a store write of a run
\* changes the record of its own id only, and when a run is over its record
\* is the one its own store calls alone produce.
C21_RunsDoNotInterfere ==
    /\ [](\A t \in Tasks : (RunOver(t) /\ writes[t] # <<>>)
                              => get_task(t) = AloneRecord(t))
    /\ [][\A t \in Tasks :
            /\ StoreStepOf(t)
                  => \A u \in Tasks \ {t} :
                        _tasks'[u] = _tasks[u] /\ _redis'[u] = _redis[u]
            /\ (_tasks'[t] # _tasks[t] \/ _redis'[t] # _redis[t])
                  => StoreStepOf(t)]_vars

\* both runs are over on the remote backend, one COMPLETE at the end of the
\* video stage and one FAILED
C21_Witness ==
    /\ enable_redis
    /\ \A t \in Tasks : RunOver(t) /\ HasState(t)
    /\ StateOf("t1") = TASK_STATE_COMPLETE /\ stop_at["t1"] = "video"
    /\ StateOf("t2") = TASK_STATE_FAILED

\* the progress the record is said to hold after the i-th PROCESSING write of
\* a run that makes n videos: the six stage marks, then 50 + k*50/(2n)
\* truncated, for the k-th half-step of the video stage
StageMarks == <<5, 10, 20, 30, 40, 50>>
ExpectedProgress(i, n) ==
    IF i <= Len(StageMarks) THEN StageMarks[i]
    ELSE (100 * n + 50 * (i - Len(StageMarks))) \div (2 * n)

\* C22: a run that gets through the video stage writes, with state
\* PROCESSING, the progress values 5, 10, 20, 30, 40, 50 and then
\* 50 + k*50/(2*video_count) truncated for k = 1..2*video_count, and its last
\* write records 100.
C22_ProgressSchedule ==
    \A t \in Tasks :
        (Terminal(t) /\ ReturnedDict(t) /\ stop_at[t] = "video")
            => LET n == params[t].video_count
                   ws == writes[t]
               IN  /\ Len(ws) = Len(StageMarks) + 2 * n + 1
                   /\ \A i \in 1..(Len(ws) - 1) :
                        /\ ws[i].state = TASK_STATE_PROCESSING
                        /\ ws[i].progress = ExpectedProgress(i, n)
                   /\ Last(ws).progress = 100

\* a delegate invocation after which its stage helper does not return
\* successfully (the subtitle helper returns normally whatever its delegates
\* yield)
CallFailed(c) ==
    \/ c.out = "raise"
    \/ c.out = "empty" /\ StageRank(c.name) # 4

\* the invocations of the video stage, in order
VideoCalls(cs) == SelectSeq(cs, LAMBDA c : StageRank(c.name) = 6)

\* C23: the delegates of a run are invoked in the order script, terms, audio,
\* subtitle, materials, video; none is invoked after a stage that failed, a
\* stage's delegate is invoked only when the earlier stages have left their
\* results, and the video stage alternates combine i, render i, combine i+1.
C23_DelegatesInStageOrder ==
    \A t \in Tasks :
        LET cs == calls[t]
            vs == VideoCalls(cs)
        IN  /\ \A i, j \in DOMAIN cs :
                i < j => /\ StageRank(cs[i].name) <= StageRank(cs[j].name)
                         /\ ~CallFailed(cs[i])
            /\ \A j \in DOMAIN cs :
                /\ StageRank(cs[j].name) >= 2 => loc[t].video_script # <<>>
                /\ StageRank(cs[j].name) >= 4 => Truthy(loc[t].audio_file)
                /\ StageRank(cs[j].name) >= 4 =>
                      \E w \in DOMAIN writes[t] : writes[t][w].progress = 30
                /\ StageRank(cs[j].name) >= 5 =>
                      \E w \in DOMAIN writes[t] : writes[t][w].progress = 40
                /\ StageRank(cs[j].name) = 6 => Truthy(loc[t].downloaded_videos)
                /\ (StageRank(cs[j].name) >= 3
                      /\ params[t].video_source # "local")
                      => Truthy(loc[t].video_terms)
            /\ \A k \in DOMAIN vs :
                /\ vs[k].name = IF k % 2 = 1 THEN "video.combine_videos"
                                ELSE "video.generate_video"
                /\ vs[k].index = (k + 1) \div 2

\* a run that invoked the delegates of all six stages and made two videos
C23_Witness ==
    /\ Terminal("t1") /\ ReturnedDict("t1")
    /\ \A name \in {"llm.generate_script", "llm.generate_terms", "voice.tts",
                    "subtitle.create", "material.download_videos"} :
          \E n \in DOMAIN calls["t1"] : calls["t1"][n].name = name
    /\ \E n \in DOMAIN calls["t1"] :
          /\ calls["t1"][n].name = "video.generate_video"
          /\ calls["t1"][n].index = 2
          /\ calls["t1"][n].out = "ok"

\* the artifacts a stage produces, by the position of start right after the
\* stage succeeded without stopping the run
StageArtifacts(at) ==
    CASE at = "script_done" -> {"script"}
      [] at = "terms_done" -> {"terms"}
      [] at = "audio_done" -> {"audio_file", "audio_duration"}
      [] at = "subtitle_done" -> {"subtitle_path"}
      [] at = "combine" -> {"materials"}
      [] OTHER -> {}

\* the run of t is right after a stage that succeeded and did not stop it
StageSucceeded(t) ==
    /\ Idle(t)
    /\ \/ pc[t] = "script_done" /\ ~Stops(t, "script")
       \/ pc[t] = "terms_done"
       \/ pc[t] = "audio_done" /\ ~Stops(t, "audio")
       \/ pc[t] = "subtitle_done"
       \/ pc[t] = "combine" /\ loc[t].i = 0

\* C24: right after a stage succeeded in a run that does not stop there, the
\* record holds state PROCESSING and the artifact(s) of that stage.
C24_StageArtifactsRecorded ==
    \A t \in Tasks :
        StageSucceeded(t)
           => /\ StateOf(t) = TASK_STATE_PROCESSING
              /\ \A f \in StageArtifacts(pc[t]) :
                    /\ f \in DOMAIN get_task(t)
                    /\ get_task(t)[f] = ArtifactOf(t, f)

\* the names of the subtitle-stage delegates a run invoked, in order, and the
\* first of these invocations
SubtitleCalls(t) == SelectSeq(calls[t], LAMBDA c : StageRank(c.name) = 4)
Names(cs) == [i \in DOMAIN cs |-> cs[i].name]
WhisperCalls == <<"subtitle.create", "subtitle.correct",
                  "subtitle.file_to_subtitles">>

\* C25: with provider "edge" the transcriber and the corrector are not
\* invoked when the timing-based generator left a subtitle file, and are
\* invoked, in that order and as with provider "whisper", when it left none;
\* with subtitles disabled no subtitle delegate is invoked and the path is
\* empty.
C25_EdgeFallsBackToWhisper ==
    \A t \in Tasks :
        LET sc == SubtitleCalls(t)
        IN  /\ (pc[t] # "off" /\ pc[t] # "ready" /\ ~params[t].subtitle_enabled)
                  => sc = <<>> /\ loc[t].subtitle_path = <<>>
            /\ (sc # <<>> /\ subtitle_provider = "whisper")
                  => Names(sc) = WhisperCalls
            /\ (sc # <<>> /\ subtitle_provider = "edge")
                  => /\ sc[1].name = "voice.create_subtitle"
                     /\ sc[1].out = "file"
                           => Names(Tail(sc)) = <<"subtitle.file_to_subtitles">>
                     /\ sc[1].out = "nofile"
                           => Names(Tail(sc)) = WhisperCalls

\* the timing-based generator left no file and the stage went on
C25_Witness ==
    /\ subtitle_provider = "edge"
    /\ pc["t1"] = "subtitle_done"
    /\ params["t1"].subtitle_enabled
    /\ SubtitleCalls("t1") # <<>>
    /\ SubtitleCalls("t1")[1].out = "nofile"

\* the step is the subtitle stage of t's run
SubtitleStep(t) ==
    pc[t] = "audio_done" /\ pc'[t] # "audio_done" /\ ~Stops(t, "audio")

\* parsing the subtitle file was the last thing a run did, and gave no cue
NoCues(cs) ==
    /\ cs # <<>>
    /\ Last(cs).name = "subtitle.file_to_subtitles"
    /\ Last(cs).out = "empty"

\* C26: the subtitle stage never fails the task: it writes PROCESSING and the
\* run is at the materials stage, or it writes COMPLETE and start returns
\* when stop_at is "subtitle"; when the subtitle file has no cue the subtitle
\* path is empty.
C26_SubtitleStageNeverFails ==
    [][\A t \in Tasks :
        SubtitleStep(t)
           => /\ writes'[t] # writes[t]
              /\ Last(writes'[t]).state # TASK_STATE_FAILED
              /\ IF Stops(t, "subtitle")
                 THEN /\ pc'[t] = "done"
                      /\ Last(writes'[t]).state = TASK_STATE_COMPLETE
                      /\ result'[t].ret = "returned"
                      /\ result'[t].val.k = "dict"
                 ELSE /\ pc'[t] = "subtitle_done"
                      /\ Last(writes'[t]).state = TASK_STATE_PROCESSING
                      /\ result'[t] = result[t]
              /\ NoCues(calls'[t]) => loc'[t].subtitle_path = <<>>
              /\ (loc'[t].subtitle_path = <<>> /\ Stops(t, "subtitle"))
                    => result'[t].val.v["subtitle_path"] = StrV(<<>>)]_vars

\* the subtitle file had no cue and the run is at the materials stage
C26_Witness ==
    /\ pc["t1"] = "subtitle_done"
    /\ params["t1"].subtitle_enabled
    /\ NoCues(calls["t1"])
    /\ loc["t1"].subtitle_path = <<>>

\* the materials stage of a run on local materials has run
PreprocessCalled(t) ==
    /\ params[t].video_source = "local"
    /\ \E n \in DOMAIN calls[t] : calls[t][n].name = "video.preprocess_video"

\* C27: with local materials of which none survives preprocessing (all below
\* the 480x480 floor, or none given), the materials stage marks the task
\* FAILED and the video stage is never run.
C27_NoSurvivorFailsTask ==
    \A t \in Tasks :
        (PreprocessCalled(t) /\ Survivors(t) = {})
           => /\ pc[t] \in {"materials_failed", "done"}
              /\ Last(writes[t]).state = TASK_STATE_FAILED
              /\ Idle(t) => StateOf(t) = TASK_STATE_FAILED
              /\ VideoCalls(calls[t]) = <<>>

\* the duration, in tenths of a second, the synthesizer measured in t's run
MeasuredTenths(t) ==
    LET n == CHOOSE n \in DOMAIN calls[t] :
                 calls[t][n].name = "voice.tts" /\ calls[t][n].out = "ok"
    IN  calls[t][n].arg

AudioStageDone(t) ==
    /\ loc[t].audio_duration.k = "int"
    /\ \E n \in DOMAIN calls[t] :
          calls[t][n].name = "voice.tts" /\ calls[t][n].out = "ok"

\* C28: the audio duration of a run is the ceiling of the measured duration d
\* (at least d, less than d + 1), a stop at the audio stage returns it, and
\* the total duration asked of a remote footage provider is that ceiling
\* times video_count, hence at least d * video_count.
C28_AudioDurationCeiling ==
    \A t \in Tasks :
        AudioStageDone(t)
           => LET d == MeasuredTenths(t)
                  a == loc[t].audio_duration.v
              IN  /\ 10 * a >= d
                  /\ 10 * (a - 1) < d
                  /\ (Terminal(t) /\ stop_at[t] = "audio")
                        => result[t].val.v["audio_duration"] = IntV(a)
                  /\ \A n \in DOMAIN calls[t] :
                        calls[t][n].name = "material.download_videos"
                           => /\ calls[t][n].arg = a * params[t].video_count
                              /\ 10 * calls[t][n].arg
                                    >= d * params[t].video_count

\* a duration of 1.5 s was measured and footage for two videos was asked for
C28_Witness ==
    /\ AudioStageDone("t1")
    /\ MeasuredTenths("t1") = 15
    /\ params["t1"].video_count = 2
    /\ \E n \in DOMAIN calls["t1"] :
          /\ calls["t1"][n].name = "material.download_videos"
          /\ calls["t1"][n].arg = 4

\* the words of a text: its maximal runs of characters other than blanks and
\* line feeds
WordsOf(s) ==
    SelectSeq(SplitOn([n \in DOMAIN s |-> IF s[n] = Newline THEN " " ELSE s[n]],
                      " ", 1, <<>>),
              LAMBDA w : w # <<>>)

\* the text is wider than max_width and each of its words fits
NeedsWordWrap ==
    /\ TextWidth(media.text) > media.max_width
    /\ ~HasWideWord

\* C29: a text wider than max_width whose words all fit is wrapped at word
\* boundaries: every line of the result is at most max_width wide, and the
\* words of the result, read in order, are the words of the text.
C29_WordWrapKeepsWords ==
    (WrapDone /\ NeedsWordWrap)
       => /\ media.processed
          /\ \A n \in DOMAIN ResultLines :
                TextWidth(ResultLines[n]) <= media.max_width
          /\ WordsOf(media.result) = WordsOf(media.text)
          /\ Len(ResultLines) >= 2

\* a text of three words came back as a line of two words and a line of one
C29_Witness ==
    /\ WrapDone /\ NeedsWordWrap
    /\ Len(WordsOf(media.text)) = 3
    /\ Len(ResultLines) = 2
    /\ Len(WordsOf(ResultLines[1])) = 2

\* C30: whichever path wrap_text takes, the height it returns is the height
\* of one line times the number of lines of the text it returns.
C30_HeightIsLinesTimesLineHeight ==
    WrapDone => media.result_height = media.height * Len(ResultLines)

\* combine_videos has split every source
SplitOver ==
    /\ media.fn = "combine_videos"
    /\ media.pc # "split" \/ media.n > Len(media.durations)

\* the segments cut from source n
SegmentsOf(n) == SelectSeq(media.raw_clips, LAMBDA c : c.src = n)

Zero == FFromInt(0)

\* every segment is a non-empty stretch of at most max_clip_duration
SegmentsBounded(segs) ==
    \A k \in DOMAIN segs :
        /\ FLess(segs[k].from, segs[k].to)
        /\ segs[k].dur = FMinus(segs[k].to, segs[k].from)
        /\ ~FLess(media.max_clip_duration, segs[k].dur)

\* the segments start at 0, each ends where another starts or at d, no two
\* start at the same place: they cover [0, d) exactly
CoversSource(segs, d) ==
    /\ \E k \in DOMAIN segs : segs[k].from = Zero
    /\ \A k \in DOMAIN segs :
          segs[k].to = d \/ \E j \in DOMAIN segs : segs[j].from = segs[k].to
    /\ \A j, k \in DOMAIN segs : segs[j].from = segs[k].from => j = k
    /\ \A k \in DOMAIN segs : ~FLess(d, segs[k].to)

\* the one segment [0, min(max_clip_duration, d))
FirstSegmentOnly(segs, d) ==
    /\ Len(segs) = 1
    /\ segs[1].from = Zero
    /\ segs[1].to = FMin(media.max_clip_duration, d)

TimelineBounded ==
    \A k \in DOMAIN media.clips :
        ~FLess(media.max_clip_duration, media.clips[k].dur)

\* C31 (as stated): the segments of every source start at 0, are contiguous
\* and at most max_clip_duration long; in random mode they cover [0, d), in
\* sequential mode exactly one segment per source is kept, the first; every
\* clip on the timeline is at most max_clip_duration long.
C31_SegmentsAsStated ==
    SplitOver
       => /\ TimelineBounded
          /\ \A n \in DOMAIN media.durations :
                LET segs == SegmentsOf(n)
                    d == media.durations[n]
                IN  /\ SegmentsBounded(segs)
                    /\ IF media.video_concat_mode = "sequential"
                       THEN FirstSegmentOnly(segs, d)
                       ELSE segs = <<>> \/ CoversSource(segs, d)

\* C31 (amended): as above for the sources of positive duration; a source of
\* duration 0 yields no segment in either mode.
C31_SegmentsOfPositiveSources ==
    SplitOver
       => /\ TimelineBounded
          /\ \A n \in DOMAIN media.durations :
                LET segs == SegmentsOf(n)
                    d == media.durations[n]
                IN  /\ SegmentsBounded(segs)
                    /\ IF ~FLess(Zero, d) THEN segs = <<>>
                       ELSE IF media.video_concat_mode = "sequential"
                       THEN FirstSegmentOnly(segs, d)
                       ELSE CoversSource(segs, d)

\* a source of 10 s was cut in two in random mode, a source of 0 s gave
\* nothing, and the timeline is built
C31_Witness ==
    /\ CombineDone
    /\ media.video_concat_mode = "random"
    /\ \E n \in DOMAIN media.durations :
          media.durations[n] = FFromInt(10) /\ Len(SegmentsOf(n)) = 2
    /\ \E n \in DOMAIN media.durations : media.durations[n] = Zero
    /\ Len(media.clips) >= 2

TextClipDone == media.fn = "create_text_clip" /\ media.pc = "done"

\* C32: with subtitle position "custom" the vertical offset y keeps the text
\* box inside the frame, whatever the percentage and the height h of the
\* box: 0 <= y and y + h <= video_height.
C32_CustomOffsetInsideFrame ==
    (TextClipDone /\ media.subtitle_position = "custom")
       => /\ ~FLess(media.y, Zero)
          /\ ~FLess(FFromInt(media.video_height),
                    FPlus(media.y, FFromInt(media.h)))

\* how many times a run invoked the delegate `name` successfully
CallCount(t, name) ==
    Len(SelectSeq(calls[t], LAMBDA c : c.name = name /\ c.out = "ok"))

\* the paths <task dir>/<stem>1.mp4 .. <task dir>/<stem>n.mp4
OutputPaths(t, stem, n) ==
    [i \in 1..n |->
        StrV(<<t, "/", stem,
               <<"1", "2", "3", "4", "5", "6", "7", "8", "9">>[i], ".mp4">>)]

\* C33: a run that ends successfully after the video stage with
\* video_count = n >= 1 returns and records n final and n combined paths,
\* the i-th being final-i and combined-i, and made exactly n combine and n
\* render calls.
C33_OutputsNumberedInOrder ==
    \A t \in Tasks :
        (Terminal(t) /\ ReturnedDict(t) /\ stop_at[t] = "video")
           => LET n == params[t].video_count
              IN  /\ n >= 1
                  /\ result[t].val.v["videos"]
                        = ListV(OutputPaths(t, "final-", n))
                  /\ result[t].val.v["combined_videos"]
                        = ListV(OutputPaths(t, "combined-", n))
                  /\ get_task(t)["videos"] = result[t].val.v["videos"]
                  /\ get_task(t)["combined_videos"]
                        = result[t].val.v["combined_videos"]
                  /\ CallCount(t, "video.combine_videos") = n
                  /\ CallCount(t, "video.generate_video") = n
                  /\ Len(VideoCalls(calls[t])) = 2 * n

\* a run that made three videos
C33_Witness ==
    /\ Terminal("t1") /\ ReturnedDict("t1") /\ stop_at["t1"] = "video"
    /\ params["t1"].video_count = 3
    /\ Len(result["t1"].val.v["videos"].v) = 3


\* C35: on the remote backend a reader calling get_task at any moment of a
\* run never finds state COMPLETE together with a progress below 100: the
\* state and the progress of one update become visible together.
C35_CompleteSeenWithFullProgress ==
    \A t \in Tasks :
        (enable_redis /\ HasState(t) /\ StateOf(t) = TASK_STATE_COMPLETE)
           => HasProgress(t) /\ ProgressOf(t) = 100

\* what combine_videos holds in its variables: the call record without the
\* count of passes, which the code does not keep
LoopState(m) == [m EXCEPT !.passes = 0]

\* C34: for a non-empty list of sources, a positive audio duration and a
\* positive max_clip_duration the loops of combine_videos come to an end,
\* also when some or all sources have duration 0. The loops have no other
\* input than the variables of the call, so they end only if no round leaves
\* those variables as it found them: a round that does is repeated for ever.
C34_CombineTerminates ==
    [][media.fn = "combine_videos" => LoopState(media') # LoopState(media)]_vars

====
